---- MODULE Spec2Model ----
(***************************************************************************)
(* Model of the GitHub API crawler: the token pool (GitHubAPIToken), the   *)
(* request dispatcher (GitHubAPI.request) and the server and network it    *)
(* talks to.  Time is a clock of whole seconds.                            *)
(***************************************************************************)
EXTENDS Integers, Sequences, FiniteSets, TLC

\* ------------------------------------------------------------ bounds
\* Number of credentials read from data/token.txt.
NumTokens == 2
\* Network sends one call to GitHubAPI.request may make in the model.
MaxSends == 3
\* The clock when the process starts.
StartTime == 100
\* How far ahead of the clock the server puts X-RateLimit-Reset.
ResetAhead == 3
\* The most hunks in a text with more than one hunk.
MaxHunks == 2
\* The most file sections in a text given to parse_files.
MaxFiles == 2
\* A process that makes several calls starts no call and no construction
\* after this many seconds.
MaxElapsed == 8

\* Seconds of sleeping after which the dispatcher's call is followed no
\* further.
MaxSendDelay == 3
\* The greatest page number a caller passes to a call that is not paginated.
MaxPageArg == 5
\* On a pool whose quota runs out, the call is followed until this many
\* seconds after the reset that the first answer announces: through the pool
\* sleep, which ends at most one second after a reset, and the send after it.
MaxWait == 2

\* ------------------------------------------------- program constants
\* time.sleep(randint(1, 60)) after a 403.
Jitter403Max == 60
\* time.sleep(randint(1, 29)) after a 443, 502 or 500.
JitterRetryMax == 29

\* ---------------------------------------------------------- the clock
\* time.time() is a float: the clock of the model counts tenths of a second,
\* the unit of the sleeps of the code (0.7, 0.8, 3.0 and whole seconds). The
\* times of the rate-limit headers are whole seconds.
Second == 10

\* The clock value of the whole second s.
Clock(s) == s * Second

\* int(x) of a time difference x given in tenths: its whole seconds, rounded
\* towards zero.
Trunc(x) == IF x >= 0 THEN x \div Second ELSE 0 - ((0 - x) \div Second)

\* The fraction of a second on the clock when the process starts.
StartFractions == {0, 5}

\* ------------------------------------------------------------ values
\* Python's None in a tracker field.
None == -1

\* A url is a sequence of characters.
Url_core == <<"r", "e", "p", "o", "s", "/", "x">>
Url_search == <<"s", "e", "a", "r", "c", "h", "/", "q">>

\* JSON values: r.json() gives a list (of items) and the dispatcher's soft
\* failures return the empty dict {}.
JList(s) == [t |-> "list", v |-> s]
EmptyDict == [t |-> "dict", v |-> <<>>]

\* The status codes the server may answer with.
Statuses == {200, 400, 401, 403, 404, 409, 410, 443, 451, 500, 502, 503}

\* The items of a non-empty body of page p; a page is a list of items.
Bodies(p) == {<<>>, <<10 * p + 1, 10 * p + 2>>}

\* No method of GitHubAPI is waiting for request.
NoWrapper ==
    [name |-> "none", result |-> [kind |-> "none", val |-> EmptyDict],
     rest |-> <<>>, yielded |-> <<>>]

VARIABLES
    tokens,          \* GitHubAPI.tokens: the pool, in order
    now,             \* time.time(), in tenths of a second
    pc,              \* "idle", "for" (inside request's loops) or "done"
    url,             \* the call's url
    paginate,        \* the call's paginate flag
    idx,             \* position of the for loop over self.tokens; Len+1: loop over
    page,            \* params['page'] (0: not set)
    paginated_res,   \* the list of accumulated items
    timeout_counter, \* request's timeout_counter
    outcome,         \* how the call ended: [kind, val]
    fetched,         \* history: the 2xx responses of this call, in order
    last,            \* history: the last send of this call and what answered it
    sleeps,          \* history: the sleeps since the last send
    stats,           \* history: counts of sends and of retried failures of this call
    pd,              \* parse_diff: its argument, its locals and its position
    pf,              \* parse_files: its argument, its locals and its position
    wrapper,         \* the method that called request, and how it ended
    nc,              \* allNonCodeFiles: its position, locals and result
    helper           \* a cached fetch helper: its position, its cache file

vars == <<tokens, now, pc, url, paginate, idx, page, paginated_res,
          timeout_counter, outcome, fetched, last, sleeps, stats, pd, pf, wrapper,
          nc, helper>>

\* --------------------------------------------------- GitHubAPIToken

StartsWith(s, prefix) ==
    /\ Len(s) >= Len(prefix)
    /\ SubSeq(s, 1, Len(prefix)) = prefix

\* A mutant of api_class: every url counts for the core quota.
api_class_core(u) == "core"

\* GitHubAPIToken.api_class
api_class(u) == IF StartsWith(u, <<"s", "e", "a", "r", "c", "h">>) THEN "search" ELSE "core"

\* GitHubAPIToken.__init__: both trackers unknown.
NewToken(secret) ==
    [token |-> secret,
     limit |-> [c \in {"core", "search"} |->
                  [limit |-> None, remaining |-> None, reset_time |-> None]]]

\* GitHubAPIToken.when
when(tok, u) ==
    IF tok.limit[api_class(u)].remaining # 0
    THEN 0
    ELSE tok.limit[api_class(u)].reset_time

\* A mutant of ready: the reset second itself is too early.
ready_strict(tok, u, t) == when(tok, u) \in {0, None} \/ Clock(when(tok, u)) < t

\* GitHubAPIToken.ready: not t or t <= time.time()
ready(tok, u, t) == when(tok, u) \in {0, None} \/ Clock(when(tok, u)) <= t

\* What the network gives for one requests.request: an exception, or a
\* response with a status, rate-limit headers (or none), a body and a Link.
NoHeaders == [present |-> FALSE, remaining |-> None, reset |-> None, limit |-> None]

HeaderChoices(t) ==
    {NoHeaders,
     [present |-> TRUE, remaining |-> 0, reset |-> Trunc(t) + ResetAhead, limit |-> 5000],
     [present |-> TRUE, remaining |-> 7, reset |-> Trunc(t) + ResetAhead, limit |-> 5000]}

Raised(e) == [exc |-> e, status |-> 0, hdr |-> NoHeaders, body |-> <<>>, next |-> FALSE]

Response(s, h, b, n) == [exc |-> "none", status |-> s, hdr |-> h, body |-> b, next |-> n]

\* A mutant of Exhausted: the 403 is returned to the dispatcher.
Exhausted_never(status, remaining) == FALSE

\* if r.status_code == 403 and remaining == 0: raise TokenNotReady
Exhausted(status, remaining) == status = 403 /\ remaining = 0

\* A mutant of UpdateLimit: only the remaining quota is taken from the response.
UpdateLimit_partial(old, hdr) == [old EXCEPT !.remaining = hdr.remaining]

\* self.limit[self.api_class(url)] = {'remaining': ..., 'reset_time': ...,
\* 'limit': ...}: the tracker is replaced by the three header values.
UpdateLimit(old, hdr) ==
    [limit |-> hdr.limit, remaining |-> hdr.remaining, reset_time |-> hdr.reset]

\* A mutant of TokenRequest: the request is sent without looking at ready.
TokenRequest_unchecked(tok, u, t, net) ==
    IF net.exc # "none"
    THEN [limit |-> tok.limit, exc |-> net.exc, sent |-> TRUE]
    ELSE IF net.hdr.present
    THEN [limit |-> [tok.limit EXCEPT ![api_class(u)] =
                        UpdateLimit(tok.limit[api_class(u)], net.hdr)],
          exc |-> IF Exhausted(net.status, net.hdr.remaining) \/ net.status = 443
                  THEN "TokenNotReady"
                  ELSE "none",
          sent |-> TRUE]
    ELSE [limit |-> tok.limit, exc |-> "none", sent |-> TRUE]

\* GitHubAPIToken.request: the tracker after the call and what the call raises
\* ("none": it returns the response).
TokenRequest(tok, u, t, net) ==
    IF ~ready(tok, u, t)
    THEN [limit |-> tok.limit, exc |-> "TokenNotReady", sent |-> FALSE]
    ELSE IF net.exc # "none"
    THEN [limit |-> tok.limit, exc |-> net.exc, sent |-> TRUE]
    ELSE IF net.hdr.present
    THEN [limit |-> [tok.limit EXCEPT ![api_class(u)] =
                        UpdateLimit(tok.limit[api_class(u)], net.hdr)],
          exc |-> IF Exhausted(net.status, net.hdr.remaining) \/ net.status = 443
                  THEN "TokenNotReady"
                  ELSE "none",
          sent |-> TRUE]
    ELSE [limit |-> tok.limit, exc |-> "none", sent |-> TRUE]

\* --------------------------------------------------- fetch_raw_diff

\* A text is a sequence of ASCII characters (a string of this module holds
\* no other character). The character "P" stands for a run of PadLen filler
\* characters, none of them a marker, a blank, a digit or a line end.
Ceiling == 100 * 1024
PadLen == Ceiling - 5

\* The control characters 0x0b (vertical tab), 0x1c, 0x1d, 0x1e and 0x1f
\* (the file, group, record and unit separators), in this order.
Controls == <<"", "", "", "", "">>

\* The ASCII characters str.strip() removes: those for which str.isspace()
\* holds.
Whitespace == {" ", "\n", "\t", "\r", "\f"} \cup {Controls[k] : k \in 1..5}

DigitChars == <<"0", "1", "2", "3", "4", "5", "6", "7", "8", "9">>

Least(S) == CHOOSE x \in S : \A y \in S : x <= y

\* len(text)
RECURSIVE len(_)
len(s) ==
    IF s = <<>> THEN 0
    ELSE (IF Head(s) = "P" THEN PadLen ELSE 1) + len(Tail(s))

\* c in text
In(c, s) == \E k \in 1..Len(s) : s[k] = c

\* text[1:]
Rest(s) == IF s = <<>> THEN <<>> ELSE Tail(s)

\* The first position of c in s[from..to], 0 if there is none.
First(s, c, from, to) ==
    LET K == {k \in from..to : s[k] = c}
    IN IF K = {} THEN 0 ELSE Least(K)

\* The last position of the line that holds position i ('.' matches no "\n").
LineEnd(s, i) ==
    LET K == {k \in i..Len(s) : s[k] = "\n"}
    IN IF K = {} THEN Len(s) ELSE Least(K) - 1

\* The match of '(@@.*?-.*?\+.*?@@)' that begins at position i: the position
\* of its last character, 0 if there is no match at i.
HeaderEnd(s, i) ==
    IF ~(i + 1 <= Len(s) /\ s[i] = "@" /\ s[i + 1] = "@") THEN 0
    ELSE LET e == LineEnd(s, i)
             p == First(s, "-", i + 2, e)
             q == IF p = 0 THEN 0 ELSE First(s, "+", p + 1, e)
             R == IF q = 0 THEN {}
                  ELSE {k \in (q + 1)..(e - 1) : s[k] = "@" /\ s[k + 1] = "@"}
         IN IF R = {} THEN 0 ELSE Least(R) + 1

\* re.split('(@@.*?-.*?\+.*?@@)', s) from position from on: the text before
\* a match, the match, and so on, ending with the text after the last match.
RECURSIVE re_split(_, _)
re_split(s, from) ==
    LET M == {i \in from..Len(s) : HeaderEnd(s, i) # 0}
    IN IF M = {} THEN <<SubSeq(s, from, Len(s))>>
       ELSE LET i == Least(M)
                e == HeaderEnd(s, i)
            IN <<SubSeq(s, from, i - 1), SubSeq(s, i, e)>> \o re_split(s, e + 1)

\* s.replace(c, '')
replace(s, c) == SelectSeq(s, LAMBDA x : x # c)

\* s.strip()
strip(s) ==
    LET K == {k \in 1..Len(s) : s[k] \notin Whitespace}
        Greatest == CHOOSE x \in K : \A y \in K : x >= y
    IN IF K = {} THEN <<>> ELSE SubSeq(s, Least(K), Greatest)

\* s.split(sep)
RECURSIVE split(_, _)
split(s, sep) ==
    LET k == First(s, sep, 1, Len(s))
    IN IF k = 0 THEN <<s>>
       ELSE <<SubSeq(s, 1, k - 1)>> \o split(SubSeq(s, k + 1, Len(s)), sep)

\* s.splitlines(): LineBreaks are the ASCII characters at which it breaks a
\* line ("\r\n" is one break): the line feed, the carriage return, the form
\* feed, the vertical tab and the separators 0x1c, 0x1d, 0x1e; not 0x1f.
RECURSIVE splitlines(_)
splitlines(s) ==
    IF s = <<>> THEN <<>>
    ELSE LET LineBreaks == {"\n", "\r", "\f"} \cup {Controls[k] : k \in 1..4}
             K == {k \in 1..Len(s) : s[k] \in LineBreaks}
         IN IF K = {} THEN <<s>>
            ELSE LET k == Least(K)
                     crlf == s[k] = "\r" /\ k < Len(s) /\ s[k + 1] = "\n"
                     e == IF crlf THEN k + 1 ELSE k
                 IN <<SubSeq(s, 1, k - 1)>> \o splitlines(SubSeq(s, e + 1, Len(s)))

\* start_with_plus_regex.sub('', x) and start_with_minus_regex.sub('', x):
\* the whole run of leading markers goes.
RECURSIVE sub(_, _)
sub(c, x) == IF x # <<>> /\ Head(x) = c THEN sub(c, Tail(x)) ELSE x

\* A mutant of join: only the first line is kept.
join_first(lines) == IF Len(lines) = 0 THEN <<>> ELSE lines[1]

\* '\n'.join(lines)
RECURSIVE join(_)
join(lines) ==
    IF Len(lines) = 0 THEN <<>>
    ELSE IF Len(lines) = 1 THEN lines[1]
    ELSE lines[1] \o <<"\n">> \o join(Tail(lines))

IsDigit(c) == \E d \in 1..10 : DigitChars[d] = c

\* The digits of a text int() accepts, after its blanks and its sign: digits,
\* with single underscores between them. The blanks int() skips at both ends
\* of an ASCII text are " ", "\t", "\n", "\r", "\f" and the vertical tab; it
\* does not skip the separators 0x1c-0x1f, which str.strip() removes.
Unsigned(s) ==
    LET Blanks == {" ", "\n", "\t", "\r", "\f", Controls[1]}
        K == {k \in 1..Len(s) : s[k] \notin Blanks}
        t == IF K = {} THEN <<>>
             ELSE SubSeq(s, Least(K), CHOOSE x \in K : \A y \in K : x >= y)
    IN IF t # <<>> /\ Head(t) \in {"+", "-"} THEN Tail(t) ELSE t

\* Whether int(s) returns: blanks around, an optional sign, and then digits
\* with single underscores between them.
IsInt(s) ==
    LET b == Unsigned(s)
    IN /\ b # <<>>
       /\ \A k \in 1..Len(b) : IsDigit(b[k]) \/ b[k] = "_"
       /\ IsDigit(b[1]) /\ IsDigit(b[Len(b)])
       /\ \A k \in 1..(Len(b) - 1) : ~(b[k] = "_" /\ b[k + 1] = "_")

RECURSIVE Magnitude(_)
Magnitude(b) ==
    IF b = <<>> THEN 0
    ELSE LET DigitVal == (CHOOSE d \in 1..10 : DigitChars[d] = b[Len(b)]) - 1
         IN 10 * Magnitude(SubSeq(b, 1, Len(b) - 1)) + DigitVal

\* int(s), for a text with IsInt(s): the blanks around it are then blanks
\* that strip removes too, and its sign is the first character after them.
int(s) ==
    LET m == Magnitude(replace(Unsigned(s), "_"))
    IN IF Head(strip(s)) = "-" THEN 0 - m ELSE m

\* One range of the header: r[1:].split(',') unpacked into location and line
\* (ok is FALSE when the unpacking raises), or location 0 and line r[1:] when
\* the range has no comma.
Side(r) ==
    IF In(",", r)
    THEN LET f == split(Rest(r), ",")
         IN IF Len(f) = 2
            THEN [ok |-> TRUE, location |-> f[1], line |-> f[2]]
            ELSE [ok |-> FALSE, location |-> <<>>, line |-> <<>>]
    ELSE [ok |-> TRUE, location |-> <<"0">>, line |-> Rest(r)]

\* A mutant of Marked: a marked line of one or two characters is left out.
Marked_long(lines, c) == SelectSeq(lines, LAMBDA x : Len(x) > 2 /\ x[1] = c)

\* filter(lambda x: (x) and (x[0] == c), lines)
Marked(lines, c) == SelectSeq(lines, LAMBDA x : x # <<>> /\ x[1] = c)

\* The accumulators of parse_diff before the loop.
NoAcc ==
    [add_diff_code |-> <<>>, del_diff_code |-> <<>>,
     add_code_line |-> 0, del_code_line |-> 0,
     add_location_set |-> <<>>, del_location_set |-> <<>>]

\* A mutant of TooLarge: a part of exactly the ceiling is parsed.
TooLarge_gt(part) == len(part) > Ceiling

\* if len(part) >= 100 * 1024: continue
TooLarge(part) == len(part) >= Ceiling

\* One pass of the loop of parse_diff, for the header text location and the
\* text part that follows it.
Hunk(acc, location, part) ==
    LET f == split(strip(replace(location, "@")), " ")
    IN IF Len(f) # 2 THEN acc
       ELSE IF TooLarge(part) THEN acc
       ELSE LET swap == In("-", f[1]) /\ In("+", f[2])
                add == Side(IF swap THEN f[2] ELSE f[1])
                dele == Side(IF swap THEN f[1] ELSE f[2])
                raw == splitlines(part)
                lines_of_code == [k \in 1..Len(raw) |-> strip(raw[k])]
                plus == Marked(lines_of_code, "+")
                minus == Marked(lines_of_code, "-")
                added_lines_of_code == [k \in 1..Len(plus) |-> sub("+", plus[k])]
                deleted_lines_of_code == [k \in 1..Len(minus) |-> sub("-", minus[k])]
                addOK == IsInt(add.location) /\ IsInt(add.line)
                delOK == IsInt(dele.location) /\ IsInt(dele.line)
            IN IF ~(add.ok /\ dele.ok) THEN acc
               ELSE [add_diff_code |->
                         acc.add_diff_code \o join(added_lines_of_code) \o <<"\n">>,
                     del_diff_code |->
                         acc.del_diff_code \o join(deleted_lines_of_code) \o <<"\n">>,
                     add_code_line |-> acc.add_code_line + Len(added_lines_of_code),
                     del_code_line |-> acc.del_code_line + Len(deleted_lines_of_code),
                     add_location_set |->
                         IF addOK
                         THEN Append(acc.add_location_set,
                                     <<int(add.location), int(add.line)>>)
                         ELSE acc.add_location_set,
                     del_location_set |->
                         IF addOK /\ delOK
                         THEN Append(acc.del_location_set,
                                     <<int(dele.location), int(dele.line)>>)
                         ELSE acc.del_location_set]

\* parse_diff is not running.
NoParse == [pc |-> "none", diff |-> <<>>, parts |-> <<>>, i |-> 0, acc |-> NoAcc]

\* Whether the text t stands in s at position i.
At(s, t, i) ==
    /\ i + Len(t) - 1 <= Len(s)
    /\ \A k \in 1..Len(t) : s[i + k - 1] = t[k]

\* s.split(sep) for a separator of several characters
RECURSIVE split_text(_, _)
split_text(s, sep) ==
    LET K == {i \in 1..Len(s) : At(s, sep, i)}
    IN IF K = {} THEN <<s>>
       ELSE <<SubSeq(s, 1, Least(K) - 1)>>
                \o split_text(SubSeq(s, Least(K) + Len(sep), Len(s)), sep)

\* The starts of the matches of 'a\/.*? b\/(.*?)\n' in s: an "a/" with a
\* " b/" after it on its line, and the line ended by "\n".
NameStarts(s) ==
    {i \in 1..Len(s) :
        /\ At(s, <<"a", "/">>, i)
        /\ LineEnd(s, i) < Len(s)
        /\ \E j \in (i + 2)..LineEnd(s, i) : At(s, <<" ", "b", "/">>, j)}

\* re.findall('a\/.*? b\/(.*?)\n', s)[0]: the group of the first match.
FirstName(s) ==
    LET i == Least(NameStarts(s))
        j == Least({j \in (i + 2)..LineEnd(s, i) : At(s, <<" ", "b", "/">>, j)})
    IN SubSeq(s, j + 3, LineEnd(s, i))

\* The passes of the loop of parse_diff from position i on.
RECURSIVE Hunks(_, _, _)
Hunks(acc, parts, i) ==
    IF i >= Len(parts) THEN acc
    ELSE Hunks(Hunk(acc, parts[i + 1], parts[i + 2]), parts, i + 2)

\* The record parse_diff returns.
Statistics(file_name, acc) ==
    [name |-> file_name,
     LOC |-> [add |-> acc.add_code_line, del |-> acc.del_code_line],
     location |-> [add |-> acc.add_location_set, del |-> acc.del_location_set],
     add_code |-> acc.add_diff_code,
     del_code |-> acc.del_diff_code]

\* parse_diff(file_name, diff)
parse_diff(file_name, diff) == Statistics(file_name, Hunks(NoAcc, re_split(diff, 1), 1))

\* One pass of the loop of parse_files over the section diff.
Section(file_list, diff) ==
    IF NameStarts(diff) = {} THEN file_list
    ELSE Append(file_list, parse_diff(FirstName(diff), diff))

\* parse_files is not running.
NoFiles == [pc |-> "none", r |-> <<>>, diff_list |-> <<>>, k |-> 0, file_list |-> <<>>]

\* ------------------------------------------------------- GitHubAPI

\* A mutant of raise_for_status: client errors pass.
raise_for_status_5xx(s) == 500 <= s /\ s < 600

\* requests.Response.raise_for_status: HTTPError for 4xx and 5xx.
raise_for_status(s) == 400 <= s /\ s < 600

\* A mutant of SoftEmpty: the 410 branch is missing.
SoftEmpty_no410(s) == s \in {404, 451} \/ s = 409

\* The branches of GitHubAPI.request that return {}.
SoftEmpty(s) == s \in {404, 451} \/ s = 409 \/ s = 410

\* A mutant of BadCredentials: the 401 branch is missing.
BadCredentials_never(s) == FALSE

\* The 401 branch: continue.
BadCredentials(s) == s = 401

\* A mutant of RetryableStatus: the 500 branch is missing.
RetryableStatus_no500(s) == s = 443 \/ s = 502

\* The 443, 502 and 500 branches: sleep(randint(1, 29)), continue.
RetryableStatus(s) == s = 443 \/ s = 502 \/ s = 500

\* The if/elif chain of GitHubAPI.request on r.status_code, and what follows it.
Classify(s) ==
    IF SoftEmpty(s) THEN "empty"
    ELSE IF BadCredentials(s) THEN "continue"
    ELSE IF s = 403 THEN "sleep403"
    ELSE IF RetryableStatus(s) THEN "sleepRetry"
    ELSE IF raise_for_status(s) THEN "HTTPError"
    ELSE "json"

\* A mutant of TimeoutEscalates: off by one.
TimeoutEscalates_ge(counter, pool) == counter >= Len(pool)

\* The timeout test of GitHubAPI.request, on the incremented counter.
TimeoutEscalates(counter, pool) == counter > Len(pool)

\* A mutant of LastPage: an empty page with rel="next" does not stop the loop.
LastPage_ignores_empty(res, has_next) == ~has_next

\* paginate: stop after this page?  (if not res or not has_next)
LastPage(res, has_next) == res = <<>> \/ ~has_next

\* A mutant of Accumulate: the new page is put in front.
Accumulate_prepend(acc, res) == res \o acc

\* paginated_res.extend(res)
Accumulate(acc, res) == acc \o res

\* A mutant of NextPage: a page is skipped.
NextPage_skip(p) == p + 2

\* params["page"] += 1
NextPage(p) == p + 1

\* randint(lo, hi): any integer from lo to hi.
randint(lo, hi) == lo..hi

NoOutcome == [kind |-> "none", val |-> EmptyDict]
NoLast == [kind |-> "none", status |-> 0, rem0 |-> FALSE, tok |-> 0, page |-> 0]
NoStats == [sends |-> 0, retried5xx |-> 0, connErrs |-> 0, timeouts |-> 0]

\* allNonCodeFiles is not running.
NoNonCode ==
    [pc |-> "none", fetch |-> [raised |-> FALSE, list |-> <<>>],
     file_list |-> <<>>, total_num_files |-> 0,
     noncode_file_count |-> 0, result |-> "none"]

\* No cache file.
NoFile == [state |-> "absent", val |-> EmptyDict]

\* No cached helper is running.
NoHelper ==
    [name |-> "none", renew |-> FALSE, pc |-> "none", result |-> NoOutcome,
     requests |-> 0, file |-> NoFile, calls |-> 0,
     before |-> [result |-> NoOutcome, file |-> NoFile], arg |-> <<>>]

Init ==
    /\ tokens = [i \in 1..NumTokens |-> NewToken(<<"t", i>>)]
    /\ \E f \in StartFractions : now = Clock(StartTime) + f
    /\ pc = "idle"
    /\ url = Url_core
    /\ paginate = FALSE
    /\ idx = 1
    /\ page = 0
    /\ paginated_res = <<>>
    /\ timeout_counter = 0
    /\ outcome = NoOutcome
    /\ fetched = <<>>
    /\ last = NoLast
    /\ sleeps = <<>>
    /\ stats = NoStats
    /\ pd = NoParse
    /\ pf = NoFiles
    /\ wrapper = NoWrapper
    /\ nc = NoNonCode
    /\ helper = NoHelper

\* GitHubAPI.request(url, paginate=p, **params): the code before the while
\* loop, for the calls (url, paginate, page) the callers make: plain and
\* paginated calls, the search call of get_repo, and the call of repo_issues
\* that passes page=N (line 351) with paginate False; 0 stands for no page
\* among the parameters. A paginated call sets params['page'] = 1.
BeginCall ==
    /\ \E rq \in {<<Url_core, FALSE, 0>>, <<Url_core, TRUE, 0>>, <<Url_search, FALSE, 0>>}
                    \cup {<<Url_core, FALSE, n>> : n \in 1..MaxPageArg} :
        /\ url' = rq[1]
        /\ paginate' = rq[2]
        /\ page' = IF rq[2] THEN 1 ELSE rq[3]
    /\ pc' = "for"
    /\ idx' = 1
    /\ timeout_counter' = 0
    /\ paginated_res' = <<>>
    /\ outcome' = NoOutcome
    /\ fetched' = <<>>
    /\ last' = NoLast
    /\ sleeps' = <<>>
    /\ stats' = NoStats
    /\ UNCHANGED <<tokens, now, pd, pf, wrapper, nc>>

\* The first call of the process.
StartCall == pc = "idle" /\ BeginCall /\ UNCHANGED helper

\* for token in self.tokens: if not token.ready(url): continue
SkipNotReady ==
    /\ pc = "for"
    /\ idx <= Len(tokens)
    /\ ~ready(tokens[idx], url, now)
    /\ idx' = idx + 1
    /\ UNCHANGED <<tokens, now, pc, url, paginate, page, paginated_res,
                   timeout_counter, outcome, fetched, last, sleeps, stats, pd, pf, wrapper, nc, helper>>

\* A mutant of Continue: the scan of the pool starts again at its head.
Continue_restart == idx' = 1 /\ pc' = "for" /\ outcome' = NoOutcome

\* A mutant of Continue: the same token is tried again.
Continue_stay == idx' = idx /\ pc' = "for" /\ outcome' = NoOutcome

\* continue: the for loop goes on with the token after this one.
Continue == idx' = idx + 1 /\ pc' = "for" /\ outcome' = NoOutcome

Finish(kind, val) == pc' = "done" /\ outcome' = [kind |-> kind, val |-> val] /\ idx' = idx

\* One iteration of the for loop on a ready token: token.request and what the
\* dispatcher does with its result.  net is what the network gives, d60 and
\* d29 are the values randint would return.
SendBody(net, d60, d29) ==
    LET tok == tokens[idx]
        tr == TokenRequest(tok, url, now, net)
        what == IF tr.exc = "none" THEN Classify(net.status) ELSE tr.exc
    IN
    /\ pc = "for"
    /\ idx <= Len(tokens)
    /\ ready(tok, url, now)
    /\ tokens' = [tokens EXCEPT ![idx].limit = tr.limit]
    /\ last' = [kind |-> IF net.exc = "none" THEN "response" ELSE net.exc,
                status |-> net.status,
                rem0 |-> net.hdr.present /\ net.hdr.remaining = 0,
                tok |-> idx,
                page |-> page]
    /\ stats' = [sends |-> stats.sends + 1,
                 retried5xx |-> stats.retried5xx +
                     (IF what = "sleepRetry" /\ net.status >= 500 THEN 1 ELSE 0),
                 connErrs |-> stats.connErrs + (IF what = "ConnectionError" THEN 1 ELSE 0),
                 timeouts |-> stats.timeouts + (IF what = "Timeout" THEN 1 ELSE 0)]
    /\ CASE what = "ConnectionError" ->
              /\ Continue
              /\ sleeps' = <<>>
              /\ UNCHANGED <<now, page, paginated_res, timeout_counter, fetched>>
         [] what = "TokenNotReady" ->
              /\ Continue
              /\ sleeps' = <<>>
              /\ UNCHANGED <<now, page, paginated_res, timeout_counter, fetched>>
         [] what = "Timeout" ->
              /\ timeout_counter' = timeout_counter + 1
              /\ IF TimeoutEscalates(timeout_counter + 1, tokens)
                 THEN Finish("Timeout", EmptyDict)
                 ELSE Continue
              /\ sleeps' = <<>>
              /\ UNCHANGED <<now, page, paginated_res, fetched>>
         [] what = "empty" ->
              /\ Finish("return", EmptyDict)
              /\ sleeps' = <<>>
              /\ UNCHANGED <<now, page, paginated_res, timeout_counter, fetched>>
         [] what = "continue" ->
              /\ Continue
              /\ sleeps' = <<>>
              /\ UNCHANGED <<now, page, paginated_res, timeout_counter, fetched>>
         [] what = "sleep403" ->
              /\ Continue
              /\ now' = now + Clock(d60)
              /\ sleeps' = <<[kind |-> "jitter403", dur |-> d60]>>
              /\ UNCHANGED <<page, paginated_res, timeout_counter, fetched>>
         [] what = "sleepRetry" ->
              /\ Continue
              /\ now' = now + Clock(d29)
              /\ sleeps' = <<[kind |-> "jitterRetry", dur |-> d29]>>
              /\ UNCHANGED <<page, paginated_res, timeout_counter, fetched>>
         [] what = "HTTPError" ->
              /\ Finish("HTTPError", EmptyDict)
              /\ sleeps' = <<>>
              /\ UNCHANGED <<now, page, paginated_res, timeout_counter, fetched>>
         [] what = "json" ->
              /\ sleeps' = <<>>
              /\ fetched' = Append(fetched, [page |-> page, body |-> net.body, next |-> net.next])
              /\ IF paginate
                 THEN /\ paginated_res' = Accumulate(paginated_res, net.body)
                      /\ IF LastPage(net.body, net.next)
                         THEN /\ Finish("return", JList(Accumulate(paginated_res, net.body)))
                              /\ page' = page
                         ELSE /\ Continue
                              /\ page' = NextPage(page)
                 ELSE /\ Finish("return", JList(net.body))
                      /\ UNCHANGED <<page, paginated_res>>
              /\ UNCHANGED <<now, timeout_counter>>
    /\ UNCHANGED <<url, paginate, pd, pf, wrapper, nc, helper>>

\* The same, for a call that has made fewer than MaxSends sends.
SendStep(net, d60, d29) == stats.sends < MaxSends /\ SendBody(net, d60, d29)

\* The call is followed while the clock is within MaxSendDelay seconds of the
\* start of the process.
InHorizon == now < Clock(StartTime + MaxSendDelay)

\* requests.request raises ConnectionError.
SendConnectionError == InHorizon /\ SendStep(Raised("ConnectionError"), 1, 1)

\* requests.request raises Timeout.
SendTimeout == InHorizon /\ SendStep(Raised("Timeout"), 1, 1)

\* The server answers: any status, with or without rate-limit headers; the
\* body and the Link header of an error response are not looked at.
SendResponse ==
    /\ InHorizon
    /\ \E s \in Statuses, h \in HeaderChoices(now) :
      \E b \in (IF s >= 400 THEN {<<>>} ELSE Bodies(IF page = 0 THEN 1 ELSE page)),
         n \in (IF s >= 400 THEN {FALSE} ELSE BOOLEAN),
         d60 \in (IF s = 403 THEN randint(1, Jitter403Max) ELSE {1}),
         d29 \in (IF s \in {443, 500, 502} THEN randint(1, JitterRetryMax) ELSE {1}) :
        SendStep(Response(s, h, b, n), d60, d29)

\* A mutant of MinWhen: the first token's time, not the minimum.
MinWhen_first(pool, u, i) == when(pool[i], u)

RECURSIVE MinWhen(_, _, _)
\* min(token.when(url) for token in self.tokens), over tokens i..Len
MinWhen(pool, u, i) ==
    IF i = Len(pool)
    THEN when(pool[i], u)
    ELSE LET rest == MinWhen(pool, u, i + 1)
             w == when(pool[i], u)
         IN IF w <= rest THEN w ELSE rest

\* A mutant of PoolSleepTime: without the extra second.
PoolSleepTime_no_plus1(pool, u, t) == Trunc(Clock(MinWhen(pool, u, 1)) - t)

\* sleep = int(next_res - time.time()) + 1
PoolSleepTime(pool, u, t) == Trunc(Clock(MinWhen(pool, u, 1)) - t) + 1

\* The for loop is over: sleep until the first reset if there is one to wait
\* for, then go round the while loop again.
EndOfPass ==
    /\ pc = "for"
    /\ idx = Len(tokens) + 1
    /\ LET sleep == PoolSleepTime(tokens, url, now)
       IN IF sleep > 0
          THEN /\ now' = now + Clock(sleep)
               /\ sleeps' = Append(sleeps, [kind |-> "pool", dur |-> sleep])
          ELSE UNCHANGED <<now, sleeps>>
    /\ idx' = 1
    /\ UNCHANGED <<tokens, pc, url, paginate, page, paginated_res,
                   timeout_counter, outcome, fetched, last, stats, pd, pf, wrapper, nc, helper>>

\* ------------------------------------- a process that makes several calls

\* The lines data/token.txt may hold: distinct secrets, or the same secret on
\* every line.
TokenFiles ==
    {[i \in 1..NumTokens |-> <<"t", i>>], [i \in 1..NumTokens |-> <<"t", 1>>]}

\* A mutant of InitPool: the pool is replaced before the list is looked at.
InitPool_assigns_first(old, toks) ==
    [raised |-> toks = <<>>, tokens |-> [i \in 1..Len(toks) |-> NewToken(toks[i])]]

\* GitHubAPI.__init__ on the singleton: EnvironmentError for an empty list,
\* else a new GitHubAPIToken for every secret.
InitPool(old, toks) ==
    IF toks = <<>>
    THEN [raised |-> TRUE, tokens |-> old]
    ELSE [raised |-> FALSE, tokens |-> [i \in 1..Len(toks) |-> NewToken(toks[i])]]

\* After import: the module's own api = GitHubAPI() has built the pool.
InitProcess ==
    /\ \E f \in TokenFiles : tokens = InitPool(<<>>, f).tokens
    /\ now = Clock(StartTime)
    /\ pc = "idle"
    /\ url = Url_core
    /\ paginate = FALSE
    /\ idx = 1
    /\ page = 0
    /\ paginated_res = <<>>
    /\ timeout_counter = 0
    /\ outcome = NoOutcome
    /\ fetched = <<>>
    /\ last = NoLast
    /\ sleeps = <<>>
    /\ stats = NoStats
    /\ pd = NoParse
    /\ pf = NoFiles
    /\ wrapper = NoWrapper
    /\ nc = NoNonCode
    /\ helper = NoHelper

\* Between two calls a caller writes GitHubAPI() or GitHubAPI(tokens=...), as
\* fetch_commit, get_pr_commit, get_repo_PRlist and get_another_pull do:
\* __new__ gives the one instance and __init__ runs on it again.
Construct ==
    /\ pc \in {"idle", "done"}
    /\ now < Clock(StartTime + MaxElapsed)
    /\ \E toks \in TokenFiles \cup {<<>>} :
        LET r == InitPool(tokens, toks)
        IN /\ tokens' = r.tokens
           /\ outcome' = IF r.raised
                         THEN [kind |-> "EnvironmentError", val |-> EmptyDict]
                         ELSE NoOutcome
    /\ pc' = "idle"
    /\ UNCHANGED <<now, url, paginate, idx, page, paginated_res, timeout_counter,
                   fetched, last, sleeps, stats, pd, pf, wrapper, nc, helper>>

\* A later call on the same instance, after the one before has ended.
StartNextCall ==
    /\ pc = "done"
    /\ now < Clock(StartTime + MaxElapsed)
    /\ BeginCall
    /\ UNCHANGED helper

\* The server answers 200 (one page) or 404, without rate-limit headers or
\* with the quota used up.
SendPlain ==
    \E s \in {200, 404}, h \in {h \in HeaderChoices(now) : h.remaining \in {None, 0}} :
        SendStep(Response(s, h, <<11, 12>>, FALSE), 1, 1)

\* GitHubAPI.requestPR: timeout_counter = 0 and params['page'] = page are
\* locals; params['per_page'] = init.numPRperPage then raises AttributeError,
\* init.py defining no numPRperPage, before the loop over the pool is entered:
\* nothing is sent and no tracker is read or written.
requestPR ==
    /\ pc \in {"idle", "done"}
    /\ pc' = "done"
    /\ outcome' = [kind |-> "AttributeError", val |-> EmptyDict]
    /\ UNCHANGED <<tokens, now, url, paginate, idx, page, paginated_res,
                   timeout_counter, fetched, last, sleeps, stats, pd, pf, wrapper,
                   nc, helper>>

NextProcess ==
    \/ StartCall
    \/ StartNextCall
    \/ Construct
    \/ requestPR
    \/ SkipNotReady
    \/ SendPlain
    \/ EndOfPass

SpecProcess == InitProcess /\ [][NextProcess]_vars

Next ==
    \/ StartCall
    \/ SkipNotReady
    \/ SendConnectionError
    \/ SendTimeout
    \/ SendResponse
    \/ EndOfPass

Spec == Init /\ [][Next]_vars

\* ------------------------------------- a pool whose quota runs out

\* The server answers 200, 401 or 403, with the rate-limit headers of
\* HeaderChoices or with headers that say remaining 0 and a reset at the
\* current second of the local clock: the window of the server ends as its
\* answer comes in, or the local clock is ahead of the server's.
SendQuota ==
    /\ now < Clock(StartTime + ResetAhead + MaxWait)
    /\ \E s \in {200, 401, 403},
          h \in HeaderChoices(now) \cup
                   {[present |-> TRUE, remaining |-> 0, reset |-> Trunc(now),
                     limit |-> 5000]} :
      \E b \in (IF s >= 400 THEN {<<>>} ELSE Bodies(IF page = 0 THEN 1 ELSE page)),
         n \in (IF s >= 400 THEN {FALSE} ELSE BOOLEAN),
         d60 \in (IF s = 403 THEN randint(1, Jitter403Max) ELSE {1}) :
        SendStep(Response(s, h, b, n), d60, 1)

NextQuota ==
    \/ StartCall
    \/ SkipNotReady
    \/ SendQuota
    \/ EndOfPass

SpecQuota == Init /\ [][NextQuota]_vars

\* ------------------------------------------------- parse_diff, step by step

\* Decimal text of a natural number.
RECURSIVE ToText(_)
ToText(n) ==
    IF n < 10 THEN <<DigitChars[n + 1]>>
    ELSE ToText(n \div 10) \o <<DigitChars[(n % 10) + 1]>>

RangeText(sign, start, length) == <<sign>> \o ToText(start) \o <<",">> \o ToText(length)

Header(r1, r2) == <<"@", "@", " ">> \o r1 \o <<" ">> \o r2 \o <<" ", "@", "@">>

\* <<S1, L1, S2, L2>> of the headers -S1,L1 +S2,L2
HunkNumbers == {<<5, 3, 7, 2>>, <<10, 2, 10, 3>>}

NormalHeader(n) == Header(RangeText("-", n[1], n[2]), RangeText("+", n[3], n[4]))

ReversedHeader(n) == Header(RangeText("+", n[3], n[4]), RangeText("-", n[1], n[2]))

\* "@@ -5 +7 @@", "@@ -5,x +7,2 @@" and "@@ -5,3 +7,2 +9 @@"
NoLengthHeader == <<"@", "@", " ", "-", "5", " ", "+", "7", " ", "@", "@">>

NonNumericHeader == <<"@", "@", " ", "-", "5", ",", "x", " ", "+", "7", ",", "2", " ", "@", "@">>

ThreeRangeHeader == <<"@", "@", " ", "-", "5", ",", "3", " ", "+", "7", ",", "2", " ", "+", "9", " ", "@", "@">>

\* What follows a header up to the next one: the rest of the header's line
\* and the lines of the hunk.
MixedBody == <<"\n", "+", "a", "\n", "-", "b", "\n", " ", "c", "\n">>

AddOnlyBody == <<"\n", "+", "a", "\n">>

PlainBodies ==
    {MixedBody, AddOnlyBody,
     <<"\n", "+", "+", "a", "\n", " ", "-", "b", "\n">>,
     <<" ", "x", "\n", "-", "b", "\n">>,
     <<"\n", " ", "c", "\n", "-", "o", "\n", "+", "n", "\n", "+", "m", "\n">>}

\* Bodies of Ceiling and Ceiling + 1 characters.
CeilingBody == <<"\n", "P", "\n", "+", "a", "\n">>

OverCeilingBody == <<"\n", "P", "\n", "+", "a", "b", "\n">>

\* The padded bodies: the first has Ceiling - 1 characters.
PaddedBodies == {<<"\n", "P", "\n", "+", "a">>, CeilingBody, OverCeilingBody}

RECURSIVE Flatten(_)
Flatten(q) == IF Len(q) = 0 THEN <<>> ELSE q[1] \o Flatten(Tail(q))

\* "@@ -1,2 +1,3 @@\n context\n-old\n+new1\n+new2\n"
ScenarioDiff ==
    <<"@", "@", " ", "-", "1", ",", "2", " ", "+", "1", ",", "3", " ", "@", "@", "\n",
      " ", "c", "o", "n", "t", "e", "x", "t", "\n", "-", "o", "l", "d", "\n",
      "+", "n", "e", "w", "1", "\n", "+", "n", "e", "w", "2", "\n">>

\* The texts given to parse_diff: one hunk of every header and body, the
\* scenario, and the texts of several hunks. Among the headers are
\* "@@ -1_0,3 +7,2 @@" and "@@ -5,3 +7,<tab>2 @@", and those with a control
\* character: a vertical tab or the separator 0x1c before the last number,
\* and the separator 0x1f before the first range; among the bodies those of
\* a file with "\r\n" line ends and tabs, of one whose lines end with "\r"
\* or a form feed, and of one with the separator 0x1f around a line and the
\* separator 0x1d and the vertical tab as line ends.
Diffs ==
    LET UnderscoreHeader ==
            Header(<<"-", "1", "_", "0", ",", "3">>, RangeText("+", 7, 2))
        TabHeader == Header(RangeText("-", 5, 3), <<"+", "7", ",", "\t", "2">>)
        Headers ==
            {NormalHeader(n) : n \in HunkNumbers}
                \cup {ReversedHeader(n) : n \in HunkNumbers}
                \cup {NoLengthHeader, NonNumericHeader, ThreeRangeHeader}
                \cup {UnderscoreHeader, TabHeader}
                \cup {Header(RangeText("-", 5, 3), <<"+", "7", ",", Controls[k], "2">>) :
                        k \in 1..2}
                \cup {Header(<<Controls[5]>> \o RangeText("-", 5, 3),
                              RangeText("+", 7, 2))}
        BlankBodies ==
            {<<"\r", "\n", "\t", "+", "a", "\r", "\n", "-", "b", "\r", "\n">>,
             <<"\n", "+", "a", "\r", "-", "b", "\f", "+", "c", "\n">>,
             <<"\n", Controls[5], "+", "a", Controls[5], "\n", "-", "b", Controls[3],
               "+", "c", Controls[1], "-", "d", "\n">>}
        Bodies_diff == PlainBodies \cup PaddedBodies \cup BlankBodies
        SeqHunks ==
            {h \o b : h \in {NormalHeader(<<5, 3, 7, 2>>), NonNumericHeader,
                               ThreeRangeHeader},
                      b \in {MixedBody, AddOnlyBody}}
                \cup {NormalHeader(<<5, 3, 7, 2>>) \o b :
                        b \in {CeilingBody, OverCeilingBody}}
    IN {h \o b : h \in Headers, b \in Bodies_diff}
           \cup {ScenarioDiff}
           \cup {Flatten(q) : q \in UNION {[1..k -> SeqHunks] : k \in 2..MaxHunks}}

InitDiff ==
    /\ tokens = [i \in 1..NumTokens |-> NewToken(<<"t", i>>)]
    /\ now = Clock(StartTime)
    /\ pc = "idle"
    /\ url = Url_core
    /\ paginate = FALSE
    /\ idx = 1
    /\ page = 0
    /\ paginated_res = <<>>
    /\ timeout_counter = 0
    /\ outcome = NoOutcome
    /\ fetched = <<>>
    /\ last = NoLast
    /\ sleeps = <<>>
    /\ stats = NoStats
    /\ \E d \in Diffs : pd = [NoParse EXCEPT !.pc = "called", !.diff = d]
    /\ pf = NoFiles
    /\ wrapper = NoWrapper
    /\ nc = NoNonCode
    /\ helper = NoHelper

\* parts = re.split(...) and the assignments before the loop
ParseDiffSplit ==
    /\ pd.pc = "called"
    /\ pd' = [pd EXCEPT !.pc = "for", !.parts = re_split(pd.diff, 1), !.i = 1]
    /\ UNCHANGED <<tokens, now, pc, url, paginate, idx, page, paginated_res,
                   timeout_counter, outcome, fetched, last, sleeps, stats,
                   pf, wrapper, nc, helper>>

\* One pass of for i in range(1, parts_len, 2); parts[i] of the code is
\* pd.parts[i + 1] here.
ParseDiffHunk ==
    /\ pd.pc = "for"
    /\ pd.i < Len(pd.parts)
    /\ pd' = [pd EXCEPT !.acc = Hunk(pd.acc, pd.parts[pd.i + 1], pd.parts[pd.i + 2]),
                        !.i = pd.i + 2]
    /\ UNCHANGED <<tokens, now, pc, url, paginate, idx, page, paginated_res,
                   timeout_counter, outcome, fetched, last, sleeps, stats,
                   pf, wrapper, nc, helper>>

\* The loop is over: return the record built from the accumulators.
ParseDiffReturn ==
    /\ pd.pc = "for"
    /\ pd.i >= Len(pd.parts)
    /\ pd' = [pd EXCEPT !.pc = "done"]
    /\ UNCHANGED <<tokens, now, pc, url, paginate, idx, page, paginated_res,
                   timeout_counter, outcome, fetched, last, sleeps, stats,
                   pf, wrapper, nc, helper>>

NextDiff ==
    \/ ParseDiffSplit
    \/ ParseDiffHunk
    \/ ParseDiffReturn

SpecDiff == InitDiff /\ [][NextDiff]_vars

\* ------------------------------------------------ parse_files, step by step

DiffGit == <<"d", "i", "f", "f", " ", "-", "-", "g", "i", "t">>

\* The sections of a diff, each a boundary line and a body. BoundaryLines is
\* what follows "diff --git" on the boundary line: " a/f b/f\n", " a/f b/g\n"
\* and, with no a/ and b/ path, " x\n". SectionBodies are the lines after it:
\* a hunk, and a hunk with an added line that reads "a/x b/y".
SectionSeqs ==
    LET BoundaryLines ==
            {<<" ", "a", "/", "f", " ", "b", "/", "f", "\n">>,
             <<" ", "a", "/", "f", " ", "b", "/", "g", "\n">>,
             <<" ", "x", "\n">>}
        PathLineBody == <<"\n", "+", "a", "/", "x", " ", "b", "/", "y", "\n">>
        SectionBodies ==
            {NormalHeader(<<5, 3, 7, 2>>) \o MixedBody,
             NormalHeader(<<5, 3, 7, 2>>) \o PathLineBody}
        Sections == {<<l, b>> : l \in BoundaryLines, b \in SectionBodies}
    IN UNION {[1..k -> Sections] : k \in 1..MaxFiles}

\* The text of a diff with the sections q.
RECURSIVE DiffText(_)
DiffText(q) ==
    IF Len(q) = 0 THEN <<>>
    ELSE DiffGit \o q[1][1] \o q[1][2] \o DiffText(Tail(q))

InitFiles ==
    /\ tokens = [i \in 1..NumTokens |-> NewToken(<<"t", i>>)]
    /\ now = Clock(StartTime)
    /\ pc = "idle"
    /\ url = Url_core
    /\ paginate = FALSE
    /\ idx = 1
    /\ page = 0
    /\ paginated_res = <<>>
    /\ timeout_counter = 0
    /\ outcome = NoOutcome
    /\ fetched = <<>>
    /\ last = NoLast
    /\ sleeps = <<>>
    /\ stats = NoStats
    /\ pd = NoParse
    /\ \E q \in SectionSeqs : pf = [NoFiles EXCEPT !.pc = "called", !.r = DiffText(q)]
    /\ wrapper = NoWrapper
    /\ nc = NoNonCode
    /\ helper = NoHelper

\* file_list = [] and diff_list = r.split('diff --git'); the loop is over
\* diff_list[1:].
ParseFilesSplit ==
    /\ pf.pc = "called"
    /\ pf' = [pf EXCEPT !.pc = "for", !.diff_list = split_text(pf.r, DiffGit), !.k = 1]
    /\ UNCHANGED <<tokens, now, pc, url, paginate, idx, page, paginated_res,
                   timeout_counter, outcome, fetched, last, sleeps, stats,
                   pd, wrapper, nc, helper>>

\* One pass of for diff in diff_list[1:]; diff_list[k] of the code is
\* pf.diff_list[k + 1] here.
ParseFilesSection ==
    /\ pf.pc = "for"
    /\ pf.k < Len(pf.diff_list)
    /\ pf' = [pf EXCEPT !.file_list = Section(pf.file_list, pf.diff_list[pf.k + 1]),
                        !.k = pf.k + 1]
    /\ UNCHANGED <<tokens, now, pc, url, paginate, idx, page, paginated_res,
                   timeout_counter, outcome, fetched, last, sleeps, stats,
                   pd, wrapper, nc, helper>>

\* return file_list
ParseFilesReturn ==
    /\ pf.pc = "for"
    /\ pf.k >= Len(pf.diff_list)
    /\ pf' = [pf EXCEPT !.pc = "done"]
    /\ UNCHANGED <<tokens, now, pc, url, paginate, idx, page, paginated_res,
                   timeout_counter, outcome, fetched, last, sleeps, stats,
                   pd, wrapper, nc, helper>>

NextFiles ==
    \/ ParseFilesSplit
    \/ ParseFilesSection
    \/ ParseFilesReturn

SpecFiles == InitFiles /\ [][NextFiles]_vars

\* ------------------------------------------- the methods that call request

MaxCommitFiles == 2

\* The keys commit_changedFile reads of an entry of 'files'.
FileKeys == <<"filename", "status", "additions", "deletions", "changes">>

\* A member of a JSON object: its key and, for 'files', the list under it.
Member(k, v) == [key |-> k, val |-> v]

\* The object of a 200 response.
Object(files) ==
    <<Member("state", <<>>), Member("files", files),
      Member("pushed_at", <<>>), Member("email", <<>>)>>

\* The objects of the 200 responses. An entry of 'files' is given by its
\* keys: a file without a patch, a file with a patch, and an entry that has
\* a filename only.
Objects ==
    LET FileEntries == {FileKeys, FileKeys \o <<"patch">>, <<"filename">>}
        FileLists == UNION {[1..n -> FileEntries] : n \in 0..MaxCommitFiles}
    IN {Object(f) : f \in FileLists}

\* The value '' that repoLastPushDate and userEmail return for an empty result.
Blank == [t |-> "str", v |-> <<>>]

\* key in res
Has(res, key) == \E k \in 1..Len(res.v) : res.v[k].key = key

\* res[key]: the value under the key, or KeyError.
Subscript(res, key) ==
    IF Has(res, key)
    THEN [kind |-> "return", val |-> [t |-> "value", v |-> <<key>>]]
    ELSE [kind |-> "KeyError", val |-> EmptyDict]

\* The list under res['files'].
Files(res) == res.v[CHOOSE k \in 1..Len(res.v) : res.v[k].key = "files"].val

\* key in f, for an entry f of 'files'.
HasKey(f, key) == \E k \in 1..Len(f) : f[k] = key

\* The generator of commit_changedFile runs from the head of the for loop
\* over files up to its next yield: the record of the five keys of the next
\* file, KeyError if the file lacks one of them, and the end of the
\* generator after the last file.
Resume(w, files) ==
    IF files = <<>>
    THEN [w EXCEPT !.result = [kind |-> "return", val |-> JList(<<>>)],
                   !.rest = <<>>]
    ELSE IF \A k \in 1..Len(FileKeys) : HasKey(Head(files), FileKeys[k])
    THEN [w EXCEPT !.result = [kind |-> "yield",
                               val |-> [t |-> "dict", v |-> FileKeys]],
                   !.rest = Tail(files),
                   !.yielded = Append(w.yielded, FileKeys)]
    ELSE [w EXCEPT !.result = [kind |-> "KeyError", val |-> EmptyDict],
                   !.rest = <<>>]

\* What the method does with the result of self.request(url);
\* commit_changedFile, a generator, up to its first yield.
AfterRequest(w, res) ==
    CASE w.name = "pr_status" -> [w EXCEPT !.result = Subscript(res, "state")]
      [] w.name = "commit_changedFile" ->
            IF Has(res, "files")
            THEN Resume(w, Files(res))
            ELSE [w EXCEPT !.result = [kind |-> "KeyError", val |-> EmptyDict]]
      [] w.name = "repoLastPushDate" ->
            [w EXCEPT !.result = IF Len(res.v) = 0
                                 THEN [kind |-> "return", val |-> Blank]
                                 ELSE Subscript(res, "pushed_at")]
      [] w.name = "userEmail" ->
            [w EXCEPT !.result = IF Len(res.v) = 0
                                 THEN [kind |-> "return", val |-> Blank]
                                 ELSE Subscript(res, "email")]

InitWrapper ==
    /\ tokens = [i \in 1..NumTokens |-> NewToken(<<"t", i>>)]
    /\ now = Clock(StartTime)
    /\ pc = "idle"
    /\ url = Url_core
    /\ paginate = FALSE
    /\ idx = 1
    /\ page = 0
    /\ paginated_res = <<>>
    /\ timeout_counter = 0
    /\ outcome = NoOutcome
    /\ fetched = <<>>
    /\ last = NoLast
    /\ sleeps = <<>>
    /\ stats = NoStats
    /\ pd = NoParse
    /\ pf = NoFiles
    /\ \E w \in {"pr_status", "commit_changedFile", "repoLastPushDate", "userEmail"} :
        wrapper = [NoWrapper EXCEPT !.name = w]
    /\ nc = NoNonCode
    /\ helper = NoHelper

\* The method builds its url ("repos/...", "users/...") and calls
\* self.request(url); for commit_changedFile this is the first next() on the
\* generator, the call of the method itself having run none of its body.
StartWrapped ==
    /\ pc = "idle"
    /\ BeginCall
    /\ url' = Url_core
    /\ paginate' = FALSE
    /\ page' = 0
    /\ UNCHANGED helper

\* The server answers 200 with an object, 401, or one of 404, 409, 410, 451.
SendWrapped ==
    \E s \in {s \in Statuses : s \in {200, 401} \/ SoftEmpty(s)},
       h \in {h \in HeaderChoices(now) : h.remaining \in {None, 0}} :
      \E b \in (IF s = 200 THEN Objects ELSE {<<>>}) :
        SendStep(Response(s, h, b, FALSE), 1, 1)

\* request has ended: the method goes on with its result, or the exception
\* of request passes through it.
WrapperReturn ==
    /\ pc = "done"
    /\ wrapper.result.kind = "none"
    /\ wrapper' = IF outcome.kind = "return"
                  THEN AfterRequest(wrapper, outcome.val)
                  ELSE [wrapper EXCEPT !.result = outcome]
    /\ UNCHANGED <<tokens, now, pc, url, paginate, idx, page, paginated_res,
                   timeout_counter, outcome, fetched, last, sleeps, stats, pd, pf,
                   nc, helper>>

\* A later next() on the generator of commit_changedFile, which stands at
\* its yield.
GeneratorNext ==
    /\ wrapper.name = "commit_changedFile"
    /\ wrapper.result.kind = "yield"
    /\ wrapper' = Resume(wrapper, wrapper.rest)
    /\ UNCHANGED <<tokens, now, pc, url, paginate, idx, page, paginated_res,
                   timeout_counter, outcome, fetched, last, sleeps, stats, pd, pf,
                   nc, helper>>

NextWrapper ==
    \/ StartWrapped
    \/ SkipNotReady
    \/ SendWrapped
    \/ EndOfPass
    \/ WrapperReturn
    \/ GeneratorNext

SpecWrapper == InitWrapper /\ [][NextWrapper]_vars

\* ------------------------------------------------------------ claims

SoftEmptyStatuses == {404, 409, 410, 451}

IsOK(s) == 200 <= s /\ s < 300

Answered == last.kind = "response"

\* A send is about to be made: the for loop stands on a ready token.
AboutToSend == pc = "for" /\ idx <= Len(tokens) /\ ready(tokens[idx], url, now)

MinOf(S) == CHOOSE x \in S : \A y \in S : x <= y

\* The tracker of token i for the call's rate class.
Tracker(i) == tokens[i].limit[api_class(url)]

NotReadyTokens == {i \in 1..Len(tokens) : ~ready(tokens[i], url, now)}

\* The for loop is over: the dispatcher is about to compute next_res.
AtEndOfPass == pc = "for" /\ idx = Len(tokens) + 1

RECURSIVE ConcatBodies(_)
\* The bodies of a sequence of fetched pages, one after the other.
ConcatBodies(fs) ==
    IF fs = <<>> THEN <<>> ELSE fs[1].body \o ConcatBodies(Tail(fs))

\* Pages 1..n-1 of the call's 2xx responses are non-empty and carry
\* rel="next", and page n carries no rel="next".
NextOnAllButLast ==
    /\ fetched # <<>>
    /\ \A i \in 1..(Len(fetched) - 1) : fetched[i].body # <<>> /\ fetched[i].next
    /\ ~fetched[Len(fetched)].next

\* C1: when the 2xx responses of a paginated call are n pages of which the
\* first n-1 are non-empty with rel="next" and the n-th has no rel="next",
\* the call has ended after exactly these n fetches, they were for pages
\* 1, 2, ..., n in that order, and it returned the n bodies concatenated in
\* page order.
C1_PaginationConcatenates ==
    (paginate /\ NextOnAllButLast) =>
        /\ pc = "done"
        /\ \A i \in 1..Len(fetched) : fetched[i].page = i
        /\ outcome = [kind |-> "return", val |-> JList(ConcatBodies(fetched))]
        /\ paginated_res = ConcatBodies(fetched)

\* C1 witness: a call that returned after three pages, the first two with
\* rel="next" and two items each.
C1_Witness ==
    /\ paginate /\ NextOnAllButLast /\ pc = "done"
    /\ Len(fetched) = 3
    /\ fetched[3].body # <<>>
    /\ Len(outcome.val.v) = 6

\* C2: in a paginated call a 2xx page that is empty or has no rel="next" is
\* the last send of the call: the call returned right after it, so no page
\* after it was asked for.
C2_StopsAtFirstFinalPage ==
    paginate =>
        \A i \in 1..Len(fetched) :
            (fetched[i].body = <<>> \/ ~fetched[i].next) =>
                /\ i = Len(fetched)
                /\ pc = "done"
                /\ outcome.kind = "return"
                /\ Answered /\ last.page = fetched[i].page
                /\ page = fetched[i].page

\* C2 witness: the call stopped on an empty second page that still carried
\* rel="next".
C2_Witness ==
    /\ paginate /\ pc = "done"
    /\ Len(fetched) = 2
    /\ fetched[2].body = <<>> /\ fetched[2].next

\* C3: a response with status 404, 409, 410 or 451 ends the call: it returns
\* the empty result, nothing is raised and nothing is sent after it.
C3_SoftEmpty ==
    (Answered /\ last.status \in SoftEmptyStatuses) =>
        /\ pc = "done"
        /\ outcome = [kind |-> "return", val |-> EmptyDict]

\* C3 witness: a 410 on the second send of a call ended it with {}.
C3_Witness ==
    /\ Answered /\ last.status = 410 /\ stats.sends = 2
    /\ pc = "done" /\ outcome.val = EmptyDict

\* The sleeps between the last send and the next one are exactly one 403
\* jitter sleep of 1 to 60 seconds.
OneJitter403 ==
    /\ Len(sleeps) = 1
    /\ sleeps[1].kind = "jitter403"
    /\ 1 <= sleeps[1].dur /\ sleeps[1].dur <= Jitter403Max

\* The send made in this step was answered 2xx and the call went on as a
\* success: it returned the body, or moved to the next page.
RetrySucceeds ==
    (last'.kind = "response" /\ IsOK(last'.status)) =>
        \/ pc' = "done" /\ outcome'.kind = "return" /\ outcome'.val.t = "list"
        \/ paginate /\ pc' = "for" /\ page' = page + 1

\* C4 as claimed: after a 403 whose headers say remaining 0, the dispatcher
\* sleeps exactly once, the 1..60 jitter, before its next send, and a 2xx
\* answer to that send completes the call.
C4_Original ==
    [][(Answered /\ last.status = 403 /\ last.rem0 /\ stats'.sends = stats.sends + 1)
         => (OneJitter403 /\ RetrySucceeds)]_vars

\* The sleeps between the last send and the next one are exactly one pool
\* sleep.
OnePoolSleep == Len(sleeps) = 1 /\ sleeps[1].kind = "pool"

\* The send made in this step was answered 403 with headers that say
\* remaining 0: the token has recorded the headers and the for loop goes on
\* with the token after it, without a sleep.
ExhaustedGoesOn ==
    (/\ stats'.sends = stats.sends + 1
     /\ last'.kind = "response" /\ last'.status = 403 /\ last'.rem0) =>
        /\ tokens'[idx].limit[api_class(url)].remaining = 0
        /\ pc' = "for" /\ idx' = idx + 1
        /\ now' = now /\ sleeps' = <<>>

\* The step at the end of a pass. It sleeps exactly when every tracker says
\* remaining 0 and the earliest reset is later than one second ago, for
\* int(earliest reset - now) + 1 seconds, which ends after that reset; no
\* token is ready when the sleep begins, or one whose reset was less than a
\* second ago is and the sleep is one second.
PoolSleepWhenDue ==
    LET earliest == MinOf({Tracker(i).reset_time : i \in 1..Len(tokens)})
        dur == Trunc(Clock(earliest) - now) + 1
    IN IF /\ \A i \in 1..Len(tokens) : Tracker(i).remaining = 0
          /\ Clock(earliest) > now - Second
       THEN /\ now' = now + Clock(dur)
            /\ sleeps' = Append(sleeps, [kind |-> "pool", dur |-> dur])
            /\ now' > Clock(earliest)
            /\ \/ NotReadyTokens = 1..Len(tokens)
               \/ /\ dur = 1
                  /\ \A i \in 1..Len(tokens) \ NotReadyTokens :
                        Clock(Tracker(i).reset_time) > now - Second
       ELSE /\ now' = now /\ sleeps' = sleeps
            /\ NotReadyTokens # 1..Len(tokens)

\* C4 as amended: a 403 whose headers say remaining 0 is recorded in the
\* tracker and raises TokenNotReady: the dispatcher goes on with the next
\* token without the jitter sleep, and before the next send it sleeps at most
\* once, the pool sleep at the end of the pass, which is taken when every
\* credential is exhausted and no reset is a second old, so with no credential
\* ready or with one whose reset passed less than a second before; a 403 that
\* does not say remaining 0 is followed by exactly one sleep, the 1..60
\* jitter. In both cases a 2xx answer to the next send makes the call go on
\* as a success.
C4_Exhausted403 ==
    [][/\ ExhaustedGoesOn
       /\ (Answered /\ last.status = 403 /\ last.rem0 /\ AtEndOfPass) =>
                PoolSleepWhenDue
       /\ (Answered /\ last.status = 403 /\ stats'.sends = stats.sends + 1) =>
            /\ IF last.rem0
               THEN sleeps = <<>> \/ OnePoolSleep
               ELSE OneJitter403
            /\ RetrySucceeds]_vars

\* C4 witness: both tokens are exhausted, the second by a 403 with remaining
\* 0; no token was ready when the dispatcher began its one sleep, the pool
\* sleep, and the send it can make now can be answered 2xx and end the call.
C4_Witness ==
    /\ Answered /\ last.status = 403 /\ last.rem0
    /\ Tracker(last.tok).remaining = 0
    /\ OnePoolSleep
    /\ \A i \in 1..Len(tokens) :
            ~ready(tokens[i], url, now - Clock(sleeps[1].dur))
    /\ AboutToSend
    /\ ENABLED (SendQuota /\ IsOK(last'.status) /\ pc' = "done")

\* The call is retrying after a short jitter sleep of 1 to 29 seconds.
RetriesAfterShortJitter ==
    /\ pc = "for" /\ outcome.kind = "none"
    /\ sleeps # <<>>
    /\ sleeps[1].kind = "jitterRetry"
C5_Witness ==
    /\ Answered /\ last.status = 500 /\ stats.sends = 2
    /\ RetriesAfterShortJitter /\ idx = last.tok + 1

Fatal == pc = "done" /\ outcome.kind \in {"HTTPError", "Timeout"}

\* C6 as claimed: once more retryable 5xx responses have been retried than
\* there are tokens, the call has ended with a fatal error.
C6_Bounded5xxRetries == stats.retried5xx > Len(tokens) => Fatal

\* C7: a timeout ends the call, re-raised, exactly when it is the call's
\* (N+1)-th for a pool of N tokens; after each of the first N the call goes on.
C7_TimeoutEscalation ==
    /\ timeout_counter = stats.timeouts
    /\ stats.timeouts <= Len(tokens) + 1
    /\ (last.kind = "Timeout" /\ stats.timeouts <= Len(tokens))
         => (pc = "for" /\ outcome.kind = "none")
    /\ (last.kind = "Timeout" /\ stats.timeouts > Len(tokens))
         => (pc = "done" /\ outcome.kind = "Timeout")
    /\ outcome.kind = "Timeout"
         => (last.kind = "Timeout" /\ stats.timeouts = Len(tokens) + 1)

\* C7 witness: the (N+1)-th timeout was re-raised.
C7_Witness ==
    /\ pc = "done" /\ outcome.kind = "Timeout"
    /\ stats.timeouts = Len(tokens) + 1

\* C8 as claimed: once more sends have failed with a connection error than
\* there are tokens, the call has ended with a fatal error.
C8_ConnectionErrorsCounted == stats.connErrs > Len(tokens) => Fatal

\* The statuses the claim lists as classified.
ClassifiedAsClaimed ==
    \/ IsOK(last.status)
    \/ last.status = 401
    \/ last.status = 403 /\ last.rem0
    \/ last.status \in SoftEmptyStatuses
    \/ 500 <= last.status /\ last.status <= 599

\* C9 as claimed: a response whose status is not 2xx and not classified (401,
\* 403 with remaining 0, 404/409/410/451, 5xx) raises the HTTP error.
C9_Original ==
    (Answered /\ ~ClassifiedAsClaimed) => (pc = "done" /\ outcome.kind = "HTTPError")

\* The statuses the if/elif chain names.
NamedStatuses == {401, 403, 404, 409, 410, 443, 451, 500, 502}

\* C9 as amended: a 4xx or 5xx response whose status is none of 401, 403,
\* 404, 409, 410, 443, 451, 500, 502 raises the HTTP error to the caller; a
\* 403 received while quota remains is not one of them: it is retried after
\* the 1..60 jitter sleep.
C9_UnnamedStatusRaises ==
    /\ (Answered /\ 400 <= last.status /\ last.status <= 599 /\ last.status \notin NamedStatuses)
         => (pc = "done" /\ outcome.kind = "HTTPError")
    /\ (Answered /\ last.status = 403 /\ ~last.rem0)
         => (pc = "for" /\ sleeps # <<>> /\ sleeps[1].kind = "jitter403")

\* C9 witness: a 400 on the second send was raised to the caller.
C9_Witness ==
    /\ Answered /\ last.status = 400 /\ stats.sends = 2
    /\ pc = "done" /\ outcome.kind = "HTTPError"

\* The secrets of the pool, in order.
PoolSecrets == [i \in 1..Len(tokens) |-> tokens[i].token]

\* C10: a 401 does not end the call: the for loop goes on to the next token;
\* and the pool holds the same tokens in the same order as at construction.
C10_AuthErrorGoesOn ==
    /\ (Answered /\ last.status = 401)
         => (pc = "for" /\ outcome.kind = "none"
             /\ tokens[last.tok].token = <<"t", last.tok>>)
    /\ PoolSecrets = [i \in 1..NumTokens |-> <<"t", i>>]

\* C10 witness: the first token answered 401 and the second is about to be
\* sent on.
C10_Witness ==
    /\ Answered /\ last.status = 401 /\ last.tok = 1
    /\ idx = 2 /\ AboutToSend

\* A send is made in this step.
Sending == stats'.sends = stats.sends + 1

\* The first token of the pool, in order, that is ready now (0: none).
FirstReady ==
    IF \E i \in 1..Len(tokens) : ready(tokens[i], url, now)
    THEN CHOOSE i \in 1..Len(tokens) :
            /\ ready(tokens[i], url, now)
            /\ \A j \in 1..(i - 1) : ~ready(tokens[j], url, now)
    ELSE 0

\* C11 as claimed: every send of a call is made on the first token, in pool
\* order, that is ready at that moment.
C11_Original == [][Sending => last'.tok = FirstReady]_vars

\* C11 as amended: the pool is scanned in its fixed order and the scan goes
\* on after the token used last: the first send of a call, and the first send
\* of every new pass over the pool, is made on the first ready token of the
\* pool; a send that follows a retry or a page advance in the same pass is
\* made on the first ready token after the one used last, also when an
\* earlier token is ready.
C11_ScanGoesOn ==
    [][Sending =>
        /\ last'.tok = idx
        /\ ready(tokens[idx], url, now)
        /\ IF stats.sends = 0 \/ idx <= last.tok
           THEN idx = FirstReady
           ELSE \A j \in (last.tok + 1)..(idx - 1) : ~ready(tokens[j], url, now)
        /\ pc' = "for" => idx' = idx + 1]_vars

\* C11 witness: the second send of a call was made on the second token
\* while the first token was ready.
C11_Witness ==
    /\ stats.sends = 2 /\ last.tok = 2 /\ last.kind = "response"
    /\ sleeps = <<>>
    /\ ready(tokens[1], url, now)
    /\ pc = "for"

\* The least element of a set of numbers.
\* C12 as claimed: the earliest-ready time is the least reset_time of the
\* tokens that are not ready, whatever the ready tokens hold.
C12_Original ==
    (AtEndOfPass /\ NotReadyTokens # {}) =>
        MinWhen(tokens, url, 1) = MinOf({Tracker(i).reset_time : i \in NotReadyTokens})

\* C12 as amended: the earliest-ready time is the least when() of all
\* tokens: 0 as soon as one token has unknown or positive remaining, else
\* the least reset_time of all tokens (ready or not); when no token is ready
\* it is the least reset_time of the tokens that are not ready.
C12_MinOverAllTokens ==
    AtEndOfPass =>
        /\ MinWhen(tokens, url, 1) =
             IF \E i \in 1..Len(tokens) : Tracker(i).remaining # 0
             THEN 0
             ELSE MinOf({Tracker(i).reset_time : i \in 1..Len(tokens)})
        /\ NotReadyTokens = 1..Len(tokens) =>
             MinWhen(tokens, url, 1) = MinOf({Tracker(i).reset_time : i \in NotReadyTokens})

\* C12 witness: both tokens are exhausted, with different reset times, the
\* later one first in the pool, and the for loop is over.
C12_Witness ==
    /\ AtEndOfPass
    /\ NotReadyTokens = 1..Len(tokens)
    /\ Tracker(1).reset_time > Tracker(Len(tokens)).reset_time
    /\ MinWhen(tokens, url, 1) = Tracker(Len(tokens)).reset_time

\* C13: while no token is ready the dispatcher sends nothing; at the end of
\* the pass it sleeps int(least reset_time - now) + 1 seconds, the whole
\* number of seconds that ends after the first reset and at most one second
\* after it, and starts the scan again; right after the sleep a token is
\* ready.
C13_PoolExhaustionSleep ==
    [][(pc = "for" /\ NotReadyTokens = 1..Len(tokens)) =>
        /\ ~Sending
        /\ idx = Len(tokens) + 1 =>
            LET first == MinOf({Tracker(i).reset_time : i \in 1..Len(tokens)})
            IN \E d \in 1..(ResetAhead + 1) :
                /\ Clock(first) - now < Clock(d)
                /\ Clock(d) <= Clock(first) - now + Second
                /\ now' = now + Clock(d)
                /\ sleeps' = Append(sleeps, [kind |-> "pool", dur |-> d])
                /\ idx' = 1 /\ pc' = "for"
                /\ \E i \in 1..Len(tokens) : ready(tokens'[i], url, now')]_vars

\* C13 witness: the pool was exhausted half a second into a second; the
\* dispatcher has slept int(2.5) + 1 seconds for it and stands at the head
\* of the pool again, half a second after the first reset.
C13_Witness ==
    /\ pc = "for" /\ idx = 1
    /\ sleeps # <<>> /\ sleeps[Len(sleeps)].kind = "pool"
    /\ sleeps[Len(sleeps)].dur = ResetAhead
    /\ \E i \in 1..Len(tokens) :
        Tracker(i).remaining = 0 /\ now = Clock(Tracker(i).reset_time) + 5

\* C15 as claimed: when a paginated call ends after at least one page was
\* fetched, what the caller gets holds the pages fetched.
C15_PartialResultsKept ==
    (pc = "done" /\ paginate /\ fetched # <<>>) =>
        outcome.val = JList(ConcatBodies(fetched))

\* The readiness rule of the tracker, on its fields.
ReadyRule(tr, t) == tr.remaining = None \/ tr.remaining > 0 \/ t >= Clock(tr.reset_time)

\* C17: a token is ready for a url exactly when the tracker of the url's
\* class has remaining unknown, or remaining > 0, or the clock has reached
\* reset_time; with remaining 0 it is not ready before reset_time.
C17_ReadyRule ==
    \A i \in 1..Len(tokens) : \A u \in {Url_core, Url_search} :
        LET tr == tokens[i].limit[IF StartsWith(u, <<"s", "e", "a", "r", "c", "h">>)
                                  THEN "search" ELSE "core"]
        IN /\ ready(tokens[i], u, now) <=> ReadyRule(tr, now)
           /\ (tr.remaining = 0 /\ now < Clock(tr.reset_time)) => ~ready(tokens[i], u, now)

\* C17 witness: one token has remaining 0 and is ready because the clock
\* stands exactly on its reset_time, another has remaining 0 and is not.
C17_Witness ==
    /\ pc = "for"
    /\ \E i, j \in 1..Len(tokens) :
        /\ Tracker(i).remaining = 0 /\ now = Clock(Tracker(i).reset_time)
        /\ ready(tokens[i], url, now)
        /\ Tracker(j).remaining = 0 /\ ~ready(tokens[j], url, now)

\* The tracker a response with headers h leaves.
FromHeaders(h) == [limit |-> h.limit, remaining |-> h.remaining, reset_time |-> h.reset]

\* C18: a tracker changes only in a send, and what it holds afterwards is
\* the three rate-limit header values of one response; otherwise it is what it
\* was before.
C18_TrackerFromOneResponse ==
    [][\A i \in 1..Len(tokens) : \A c \in {"core", "search"} :
        tokens'[i].limit[c] # tokens[i].limit[c] =>
            /\ Sending
            /\ \E h \in HeaderChoices(now) :
                /\ h.present
                /\ tokens'[i].limit[c] = FromHeaders(h)
                /\ last'.rem0 = (h.remaining = 0)]_vars

\* C18 witness: a tracker that held the values of one response now holds
\* the values of a later one.
C18_Witness ==
    \E i \in 1..Len(tokens) :
        /\ last.tok = i /\ ~last.rem0
        /\ Tracker(i).remaining = 7
        /\ Tracker(i).reset_time = Trunc(now) + ResetAhead
        /\ now >= Clock(StartTime + 2)
        /\ stats.sends = 3

\* C14 as claimed: what the responses have recorded in the trackers stays
\* until a later response changes it: a tracker changes only in a send, also
\* when callers get the dispatcher through GitHubAPI() between calls.
C14_TrackersPersist ==
    [][\A i \in 1..Len(tokens) : \A c \in {"core", "search"} :
        tokens'[i].limit[c] # tokens[i].limit[c] => Sending]_vars

\* C16: constructing with an empty token list raises the configuration error
\* without a send and leaves the pool that exists as it was, trackers
\* included; the pool is never empty.
C16_EmptyListRejected ==
    [][(outcome'.kind = "EnvironmentError" /\ outcome' # outcome) =>
        /\ tokens' = tokens
        /\ Len(tokens') >= 1
        /\ ~Sending
        /\ pc' = "idle"]_vars

\* C16 witness: the construction with an empty list was refused and the pool
\* still holds what a response recorded.
C16_Witness ==
    /\ outcome.kind = "EnvironmentError"
    /\ Len(tokens) = NumTokens
    /\ \E i \in 1..Len(tokens) : tokens[i].limit["core"].remaining = 0

\* C19: a send changes no tracker but the one of the token that sent it, for
\* the class of the url: "search" for a url that starts with "search", "core"
\* for any other; this also holds in a pool whose tokens hold the same secret.
C19_TrackersPartitioned ==
    [][Sending =>
        \A i \in 1..Len(tokens) : \A c \in {"core", "search"} :
            tokens'[i].limit[c] # tokens[i].limit[c] =>
                /\ i = idx
                /\ c = (IF StartsWith(url, <<"s", "e", "a", "r", "c", "h">>)
                        THEN "search" ELSE "core")]_vars

\* C19 witness: in a pool of tokens with the same secret a search response
\* has set the search tracker of the first token; its core tracker and both
\* trackers of the last token have recorded nothing.
C19_Witness ==
    /\ \A i \in 1..Len(tokens) : tokens[i].token = tokens[1].token
    /\ url = Url_search /\ last.tok = 1 /\ last.kind = "response"
    /\ tokens[1].limit["search"].remaining = 0
    /\ tokens[1].limit["core"] = NewToken(<<"t", 1>>).limit["core"]
    /\ tokens[Len(tokens)].limit = NewToken(<<"t", 1>>).limit

\* C20 as claimed: for a header with the ranges -S1,L1 and +S2,L2, written
\* in either order, parse_diff records the deleted location (S1, L1) and the
\* added location (S2, L2).
C20_SideBySign ==
    \A n \in HunkNumbers : \A h \in {NormalHeader(n), ReversedHeader(n)} :
        \A b \in PlainBodies :
            (pd.pc = "done" /\ pd.diff = h \o b) =>
                /\ pd.acc.del_location_set = <<<<n[1], n[2]>>>>
                /\ pd.acc.add_location_set = <<<<n[3], n[4]>>>>

\* ParseDone: parse_diff has returned.
ParseDone == pd.pc = "done"

\* A pass of the loop of parse_diff.
HunkStep == pd.pc = "for" /\ pd'.pc = "for" /\ pd'.i = pd.i + 2

\* The lines of a text, unstripped, that begin with the marker c.
RawMarked(part, c) == SelectSeq(splitlines(part), LAMBDA x : x # <<>> /\ x[1] = c)

\* The number of lines of a text that begin with the marker c once stripped.
BodyCount(part, c) ==
    LET raw == splitlines(part)
    IN Cardinality({k \in 1..Len(raw) :
                       LET x == strip(raw[k]) IN x # <<>> /\ x[1] = c})

\* C21 as claimed: the header "@@ -5 +7 @@", whose ranges have no length,
\* gives the deleted location (5, 1) and the added location (7, 1).
C21_NoLengthIsOne ==
    \A b \in PlainBodies :
        (ParseDone /\ pd.diff = NoLengthHeader \o b) =>
            /\ pd.acc.del_location_set = <<<<5, 1>>>>
            /\ pd.acc.add_location_set = <<<<7, 1>>>>

\* C22 as claimed: a hunk that is recorded added as many lines as the add
\* length of its header says and removed as many as the delete length says.
C22_Original ==
    [][(/\ HunkStep
        /\ pd.parts[pd.i + 1] \in {NormalHeader(n) : n \in HunkNumbers}
        /\ Len(pd'.acc.add_location_set) > Len(pd.acc.add_location_set)
        /\ Len(pd'.acc.del_location_set) > Len(pd.acc.del_location_set)) =>
            /\ pd'.acc.add_code_line - pd.acc.add_code_line =
                   pd'.acc.add_location_set[Len(pd'.acc.add_location_set)][2]
            /\ pd'.acc.del_code_line - pd.acc.del_code_line =
                   pd'.acc.del_location_set[Len(pd'.acc.del_location_set)][2]]_vars

\* C22, amended: a hunk with a header -S1,L1 +S2,L2 and a body below the
\* ceiling is always recorded, whatever L1 and L2 are, and its line counts are
\* the numbers of body lines that begin with '+' and with '-' once stripped.
C22_CountsFromBody ==
    [][(/\ HunkStep
        /\ pd.parts[pd.i + 1] \in {NormalHeader(n) : n \in HunkNumbers}
        /\ len(pd.parts[pd.i + 2]) < Ceiling) =>
            /\ Len(pd'.acc.add_location_set) = Len(pd.acc.add_location_set) + 1
            /\ Len(pd'.acc.del_location_set) = Len(pd.acc.del_location_set) + 1
            /\ pd'.acc.add_code_line =
                   pd.acc.add_code_line + BodyCount(pd.parts[pd.i + 2], "+")
            /\ pd'.acc.del_code_line =
                   pd.acc.del_code_line + BodyCount(pd.parts[pd.i + 2], "-")]_vars

\* C22 witness: a recorded hunk whose number of added lines is not the add
\* length of its header.
C22_Witness ==
    /\ ParseDone
    /\ Len(pd.acc.add_location_set) = 1 /\ Len(pd.acc.del_location_set) = 1
    /\ pd.acc.add_code_line >= 1
    /\ pd.acc.add_code_line # pd.acc.add_location_set[1][2]

\* C23 as claimed: a body is left out exactly when it is longer than the
\* ceiling; a body of exactly the ceiling is parsed.
C23_Original ==
    \A n \in HunkNumbers : \A b \in PaddedBodies :
        (ParseDone /\ pd.diff = NormalHeader(n) \o b) =>
            (pd.acc = NoAcc <=> len(b) > Ceiling)

\* C23, amended: a body is left out of every output exactly when its length
\* is at least the ceiling (a body of exactly 102400 characters is left out,
\* one of 102399 is parsed), and the hunk after one left out is processed.
C23_SkippedFromCeiling ==
    /\ \A n \in HunkNumbers : \A b \in PaddedBodies :
        (ParseDone /\ pd.diff = NormalHeader(n) \o b) =>
            IF len(b) >= Ceiling
            THEN pd.acc = NoAcc
            ELSE /\ pd.acc.add_location_set = <<<<n[3], n[4]>>>>
                 /\ pd.acc.del_location_set = <<<<n[1], n[2]>>>>
                 /\ pd.acc.add_code_line = 1
    /\ \A b \in {CeilingBody, OverCeilingBody} :
        (ParseDone /\ pd.diff = NormalHeader(<<5, 3, 7, 2>>) \o b
                                  \o NormalHeader(<<5, 3, 7, 2>>) \o MixedBody) =>
            /\ pd.acc.add_location_set = <<<<7, 2>>>>
            /\ pd.acc.del_location_set = <<<<5, 3>>>>
            /\ pd.acc.add_code_line = 1 /\ pd.acc.del_code_line = 1

\* C23 witness: a body of exactly the ceiling was left out and the hunk after
\* it was recorded.
C23_Witness ==
    /\ ParseDone
    /\ pd.diff = NormalHeader(<<5, 3, 7, 2>>) \o CeilingBody
                     \o NormalHeader(<<5, 3, 7, 2>>) \o MixedBody
    /\ len(pd.parts[3]) = Ceiling
    /\ Len(pd.acc.add_location_set) = 1

\* C24: on "@@ -1,2 +1,3 @@\n context\n-old\n+new1\n+new2\n" parse_diff gives
\* the added lines new1 and new2, the removed line old, the added location
\* (1, 3), the deleted location (1, 2) and the line counts 2 and 1.
C24_Scenario ==
    (ParseDone /\ pd.diff = ScenarioDiff) =>
        /\ pd.acc.add_diff_code = <<"n", "e", "w", "1", "\n", "n", "e", "w", "2", "\n">>
        /\ pd.acc.del_diff_code = <<"o", "l", "d", "\n">>
        /\ pd.acc.add_location_set = <<<<1, 3>>>>
        /\ pd.acc.del_location_set = <<<<1, 2>>>>
        /\ pd.acc.add_code_line = 2
        /\ pd.acc.del_code_line = 1

\* C24 witness: parse_diff has returned for the scenario's text.
C24_Witness ==
    /\ ParseDone /\ pd.diff = ScenarioDiff
    /\ Len(pd.parts) = 3 /\ pd.acc.add_code_line = 2

\* C25 as claimed: a body line counts as added iff its first raw character is
\* '+' and as removed iff its first raw character is '-'; a line that begins
\* with a blank is context.
C25_ByLeadingRawChar ==
    \A n \in HunkNumbers : \A b \in PlainBodies :
        (ParseDone /\ pd.diff = NormalHeader(n) \o b) =>
            /\ pd.acc.add_code_line = Len(RawMarked(b, "+"))
            /\ pd.acc.del_code_line = Len(RawMarked(b, "-"))

\* C26 as claimed: the text recorded for an added or removed line is the raw
\* line without its first character, so "++a" is recorded as "+a".
C26_SingleMarkerStripped ==
    \A n \in HunkNumbers : \A b \in PlainBodies :
        (ParseDone /\ pd.diff = NormalHeader(n) \o b) =>
            /\ \A k \in 1..Len(RawMarked(b, "+")) :
                \E j \in 1..Len(splitlines(pd.acc.add_diff_code)) :
                    splitlines(pd.acc.add_diff_code)[j] = Tail(RawMarked(b, "+")[k])
            /\ \A k \in 1..Len(RawMarked(b, "-")) :
                \E j \in 1..Len(splitlines(pd.acc.del_diff_code)) :
                    splitlines(pd.acc.del_diff_code)[j] = Tail(RawMarked(b, "-")[k])

\* C27 as claimed: a hunk whose header has a wrong number of ranges or a
\* non-numeric field is skipped: the pass over it changes no accumulator.
C27_MalformedSkipped ==
    [][(HunkStep /\ pd.parts[pd.i + 1] \in {NonNumericHeader, ThreeRangeHeader}) =>
        pd'.acc = pd.acc]_vars

\* C28 as claimed: no hunk is half-recorded: the two location lists have the
\* same length, and lines and code text are only counted with a location.
C28_AllOrNothing ==
    /\ Len(pd.acc.add_location_set) = Len(pd.acc.del_location_set)
    /\ Len(pd.acc.del_location_set) = 0 =>
        /\ pd.acc.add_code_line = 0 /\ pd.acc.del_code_line = 0
        /\ pd.acc.add_diff_code = <<>> /\ pd.acc.del_diff_code = <<>>

\* C29 as claimed: parse_files returns one record for every section whose
\* boundary line holds an a/ and a b/ path, in the order of the sections and
\* named by the b/ path of that line, and no record for any other section.
C29_OneRecordPerSection ==
    \A q \in SectionSeqs :
        (pf.pc = "done" /\ pf.r = DiffText(q)) =>
            LET good == SelectSeq(q, LAMBDA x : NameStarts(x[1]) # {})
            IN /\ Len(pf.file_list) = Len(good)
               /\ \A k \in 1..Len(good) :
                    pf.file_list[k] =
                        parse_diff(FirstName(good[k][1]), good[k][1] \o good[k][2])

\* C30 as claimed: when request returns the empty result for a 404, 409, 410
\* or 451, the method that called it completes without raising.
C30_SoftEmptyIsTerminal ==
    (/\ wrapper.result.kind # "none"
     /\ last.kind = "response" /\ last.status \in SoftEmptyStatuses
     /\ outcome = [kind |-> "return", val |-> EmptyDict]) =>
        wrapper.result.kind \in {"return", "yield"}

\* C31 as claimed: the timeout counter counts consecutive timeouts, so once
\* a send has been answered with success no timeout is counted any more.
C31_CountsConsecutive ==
    (last.kind = "response" /\ IsOK(last.status)) => timeout_counter = 0

\* C34: inside a call the page number changes only with a send answered by a
\* successful page that is not the last, and then by exactly one; the
\* accumulated results change only by appending the page of a successful
\* send; the pages fetched so far are pages 1, 2, ... with none skipped and
\* none twice.
C34_RetriesKeepPage ==
    [][pc # "idle" =>
        /\ page' # page =>
              /\ Sending /\ paginate
              /\ last'.kind = "response" /\ IsOK(last'.status)
              /\ fetched' = Append(fetched, fetched'[Len(fetched')])
              /\ fetched'[Len(fetched')].page = page
              /\ fetched'[Len(fetched')].next
              /\ fetched'[Len(fetched')].body # <<>>
              /\ page' = page + 1
        /\ paginated_res' # paginated_res =>
              /\ Sending /\ paginate
              /\ last'.kind = "response" /\ IsOK(last'.status)
              /\ paginated_res' = paginated_res \o fetched'[Len(fetched')].body
        /\ paginate' =>
              /\ \A k \in 1..Len(fetched') : fetched'[k].page = k
              /\ page' \in {Len(fetched'), Len(fetched') + 1}
              /\ paginated_res' = ConcatBodies(fetched')]_vars

\* C34 witness: page 1 has been fetched and the send for page 2 was answered
\* with 401: the call goes on at page 2 with the results of page 1.
C34_Witness ==
    /\ paginate /\ pc = "for" /\ page = 2
    /\ last.kind = "response" /\ last.status = 401 /\ last.page = 2
    /\ Len(fetched) = 1 /\ paginated_res = fetched[1].body
    /\ paginated_res # <<>>

\* C36 as claimed: after a pass over the pool in which sends were made and
\* none succeeded, and during which no time has passed, the dispatcher
\* sleeps before the next pass.
C36_SleepsBetweenPasses ==
    [][(/\ pc = "for" /\ idx = Len(tokens) + 1 /\ idx' = 1
        /\ stats.sends > 0 /\ fetched = <<>>
        /\ now < Clock(StartTime + 1)) => now' > now]_vars

\* The number of newline characters of a text.
Newlines(s) == Cardinality({k \in 1..Len(s) : s[k] = "\n"})

\* C37 as claimed: the code texts of parse_diff hold as many
\* newline-terminated lines as the line counts say.
C37_TextMatchesCounts ==
    ParseDone =>
        /\ Newlines(pd.acc.add_diff_code) = pd.acc.add_code_line
        /\ Newlines(pd.acc.del_diff_code) = pd.acc.del_code_line

\* ------------------------------- GitHubAPIToken.request called on its own

\* The statuses that GitHubAPIToken.request tells apart, and one it does not.
TokenStatuses == {200, 403, 443}

\* One token, as GitHubAPIToken.__init__ leaves it, and no call yet.
InitToken ==
    /\ tokens = <<NewToken(<<"t", 1>>)>>
    /\ now = Clock(StartTime)
    /\ pc = "idle"
    /\ url = Url_core
    /\ paginate = FALSE
    /\ idx = 1
    /\ page = 0
    /\ paginated_res = <<>>
    /\ timeout_counter = 0
    /\ outcome = NoOutcome
    /\ fetched = <<>>
    /\ last = NoLast
    /\ sleeps = <<>>
    /\ stats = NoStats
    /\ pd = NoParse
    /\ pf = NoFiles
    /\ wrapper = NoWrapper
    /\ nc = NoNonCode
    /\ helper = NoHelper

\* A caller calls tokens[i].request(u), whatever the token's state.
TokenEnter ==
    /\ pc = "idle"
    /\ stats.sends < MaxSends
    /\ \E i \in 1..Len(tokens), u \in {Url_core, Url_search} :
        /\ idx' = i
        /\ url' = u
    /\ pc' = "token"
    /\ outcome' = NoOutcome
    /\ UNCHANGED <<tokens, now, paginate, page, paginated_res, timeout_counter,
                   fetched, last, sleeps, stats, pd, pf, wrapper, nc, helper>>

\* The body of GitHubAPIToken.request, for what the network would give.
TokenRun(net) ==
    LET tr == TokenRequest(tokens[idx], url, now, net)
    IN /\ pc = "token"
       /\ tokens' = [tokens EXCEPT ![idx].limit = tr.limit]
       /\ outcome' = [kind |-> IF tr.exc = "none" THEN "return" ELSE tr.exc,
                      val |-> EmptyDict]
       /\ last' = IF tr.sent
                  THEN [kind |-> IF net.exc = "none" THEN "response" ELSE net.exc,
                        status |-> net.status,
                        rem0 |-> net.hdr.present /\ net.hdr.remaining = 0,
                        tok |-> idx,
                        page |-> page]
                  ELSE NoLast
       /\ stats' = [stats EXCEPT !.sends = stats.sends + (IF tr.sent THEN 1 ELSE 0)]
       /\ pc' = "idle"
       /\ UNCHANGED <<now, url, paginate, idx, page, paginated_res, timeout_counter,
                      fetched, sleeps, pd, pf, wrapper, nc, helper>>

\* requests.request raises.
TokenRaises == \E e \in {"ConnectionError", "Timeout"} : TokenRun(Raised(e))

\* requests.request returns a response.
TokenAnswered ==
    \E s \in TokenStatuses, h \in HeaderChoices(now) :
        TokenRun(Response(s, h, <<>>, FALSE))

\* A second passes between two calls.
Tick ==
    /\ pc = "idle"
    /\ now < Clock(StartTime + MaxElapsed)
    /\ now' = now + Second
    /\ UNCHANGED <<tokens, pc, url, paginate, idx, page, paginated_res,
                   timeout_counter, outcome, fetched, last, sleeps, stats,
                   pd, pf, wrapper, nc, helper>>

\* The url of _check_limits.
Url_rate_limit == <<"r", "a", "t", "e", "_", "l", "i", "m", "i", "t">>

\* What the network gives to request('rate_limit'): an exception, or a
\* response whose body holds resources.search when the status is 200 and is
\* an error object without it otherwise; the headers may tell a limit of 60.
LegitAnswers(t) ==
    LET \* the member resources.search of the body
        SearchBodies ==
            {[limit |-> 30, remaining |-> r, reset |-> Trunc(t) + ResetAhead] :
                r \in {0, 7}}
    IN {Raised(e) : e \in {"ConnectionError", "Timeout"}} \cup
       {Response(st, h, IF st = 200 THEN <<b>> ELSE <<>>, FALSE) :
           st \in TokenStatuses,
           h \in HeaderChoices(t) \cup
                   {[present |-> TRUE, remaining |-> 7,
                     reset |-> Trunc(t) + ResetAhead, limit |-> 60]},
           b \in SearchBodies}

\* GitHubAPIToken._check_limits: request('rate_limit'), whose exceptions
\* other than TokenNotReady pass through; then the search tracker is written
\* from resources.search of the body (KeyError if the body has none), or
\* with None three times after TokenNotReady.
check_limits(tok, t, net) ==
    LET tr == TokenRequest(tok, Url_rate_limit, t, net)
    IN IF tr.exc = "TokenNotReady"
       THEN [limit |-> [tr.limit EXCEPT !["search"] =
                           [limit |-> None, remaining |-> None, reset_time |-> None]],
             exc |-> "none", sent |-> tr.sent]
       ELSE IF tr.exc # "none"
       THEN tr
       ELSE IF net.body = <<>>
       THEN [limit |-> tr.limit, exc |-> "KeyError", sent |-> TRUE]
       ELSE [limit |-> [tr.limit EXCEPT !["search"] =
                           [limit |-> net.body[1].limit,
                            remaining |-> net.body[1].remaining,
                            reset_time |-> net.body[1].reset]],
             exc |-> "none", sent |-> TRUE]

\* GitHubAPIToken.legit: _check_limits if the core limit is unknown, then
\* self.limit['core']['limit'] < 100, a TypeError if the limit is still None.
legit(tok, t, net) ==
    LET cl == IF tok.limit["core"].limit = None
              THEN check_limits(tok, t, net)
              ELSE [limit |-> tok.limit, exc |-> "none", sent |-> FALSE]
        core == cl.limit["core"].limit
    IN [limit |-> cl.limit,
        sent |-> cl.sent,
        exc |-> IF cl.exc # "none" THEN cl.exc
                ELSE IF core = None THEN "TypeError" ELSE "none",
        val |-> IF cl.exc = "none" /\ core # None
                THEN (IF core < 100 THEN <<"True">> ELSE <<"False">>)
                ELSE <<>>]

\* A caller calls tokens[i].legit().
TokenLegit ==
    /\ pc = "idle"
    /\ stats.sends < MaxSends
    /\ \E i \in 1..Len(tokens), net \in LegitAnswers(now) :
        LET r == legit(tokens[i], now, net)
        IN /\ idx' = i
           /\ tokens' = [tokens EXCEPT ![i].limit = r.limit]
           /\ outcome' = IF r.exc = "none"
                         THEN [kind |-> "return", val |-> [t |-> "bool", v |-> r.val]]
                         ELSE [kind |-> r.exc, val |-> EmptyDict]
           /\ last' = IF r.sent
                      THEN [kind |-> IF net.exc = "none" THEN "response" ELSE net.exc,
                            status |-> net.status,
                            rem0 |-> net.hdr.present /\ net.hdr.remaining = 0,
                            tok |-> i,
                            page |-> page]
                      ELSE NoLast
           /\ stats' = [stats EXCEPT !.sends = stats.sends + (IF r.sent THEN 1 ELSE 0)]
    /\ url' = Url_rate_limit
    /\ UNCHANGED <<now, pc, paginate, page, paginated_res, timeout_counter,
                   fetched, sleeps, pd, pf, wrapper, nc, helper>>

NextToken == TokenEnter \/ TokenRaises \/ TokenAnswered \/ TokenLegit \/ Tick

SpecToken == InitToken /\ [][NextToken]_vars

\* C33: GitHubAPIToken.request sends only if the tracker of the url's class is
\* ready at that moment; called on a token that is not ready it raises
\* TokenNotReady, sends nothing and leaves every tracker as it was.
C33_NoSendUnlessReady ==
    [][/\ Sending => ReadyRule(tokens[idx'].limit[api_class(url')], now)
       /\ pc = "token" =>
            (~ReadyRule(Tracker(idx), now) =>
                /\ outcome'.kind = "TokenNotReady"
                /\ tokens' = tokens
                /\ stats'.sends = stats.sends
                /\ last' = NoLast)]_vars

\* C33 witness: a token whose tracker says remaining 0 until a later second
\* was called and raised TokenNotReady without a send.
C33_Witness ==
    /\ pc = "idle" /\ outcome.kind = "TokenNotReady" /\ last = NoLast
    /\ Tracker(idx).remaining = 0 /\ now < Clock(Tracker(idx).reset_time)
    /\ stats.sends > 0

\* ------------------------- a call on a pool with good and bad credentials

MaxPages == 2

IsGood(tok) == tok.token[1] = "good"

\* The pools of the scenario: every token is good or bad, one at least good.
InitFair ==
    /\ \E p \in {q \in [1..NumTokens -> {"good", "bad"}] :
                    \E i \in 1..NumTokens : q[i] = "good"} : tokens = [i \in 1..NumTokens |-> NewToken(<<p[i], i>>)]
    /\ now = Clock(StartTime)
    /\ pc = "idle"
    /\ url = Url_core
    /\ paginate = FALSE
    /\ idx = 1
    /\ page = 0
    /\ paginated_res = <<>>
    /\ timeout_counter = 0
    /\ outcome = NoOutcome
    /\ fetched = <<>>
    /\ last = NoLast
    /\ sleeps = <<>>
    /\ stats = NoStats
    /\ pd = NoParse
    /\ pf = NoFiles
    /\ wrapper = NoWrapper
    /\ nc = NoNonCode
    /\ helper = NoHelper

\* A send on a good token: the server answers 200 with a page of the
\* resource, which has MaxPages pages at most, and the token's quota is
\* never used up.
SendGood ==
    /\ pc = "for" /\ idx <= Len(tokens) /\ IsGood(tokens[idx])
    /\ stats.sends < NumTokens * MaxPages
    /\ \E h \in {x \in HeaderChoices(now) : x.remaining # 0},
          b \in Bodies(IF page = 0 THEN 1 ELSE page),
          n \in (IF page < MaxPages THEN BOOLEAN ELSE {FALSE}) :
        SendBody(Response(200, h, b, n), 1, 1)

\* A send on a bad token: the server answers 401.
SendBad ==
    /\ pc = "for" /\ idx <= Len(tokens) /\ ~IsGood(tokens[idx])
    /\ stats.sends < NumTokens * MaxPages
    /\ \E h \in HeaderChoices(now) : SendBody(Response(401, h, <<>>, FALSE), 1, 1)

NextFair == StartCall \/ SkipNotReady \/ SendGood \/ SendBad \/ EndOfPass

\* The call is a running loop: it takes its next step.
SpecFair == InitFair /\ [][NextFair]_vars /\ WF_vars(NextFair)

\* C35: on a pool where one credential at least is ready and is answered with
\* 200 on every send while the others are answered with 401, a call for a
\* resource of finitely many pages eventually returns its result.
C35_BadTokensDoNotStarve == <>(pc = "done" /\ outcome.kind = "return")

\* C35 witness: a paginated call on a pool with a bad token has returned all
\* MaxPages pages, after sends that were answered with 401.
C35_Witness ==
    /\ pc = "done" /\ outcome.kind = "return" /\ paginate
    /\ \E i \in 1..Len(tokens) : ~IsGood(tokens[i])
    /\ Len(fetched) = MaxPages
    /\ stats.sends > Len(fetched)
    /\ outcome.val = JList(ConcatBodies(fetched))

\* -------------------------------------------- the cached fetch helpers

MaxHelperCalls == 2

\* The helpers that call request with paginate=True; get_repo_PRlist does so
\* for the types 'pull' and 'issue' (line 953) and for any other type passes
\* True where request takes its method (line 957): paginate stays False.
HelperPaginate(h, type) ==
    \/ h \in {"get_pull_commit", "get_pr_commit"}
    \/ h = "get_repo_PRlist" /\ type \in {<<"pull">>, <<"issue">>}

\* time.sleep(3.0) of get_PR and time.sleep(0.7) of the others, in tenths of
\* a second; get_repo_PRlist does not sleep.
HelperSleep(h) ==
    CASE h = "get_PR" -> 30
      [] h = "get_repo_PRlist" -> 0
      [] OTHER -> 7

\* The number of digits of text from position j on.
RECURSIVE DigitRun(_, _)
DigitRun(text, j) ==
    IF j <= Len(text) /\ IsDigit(text[j]) THEN 1 + DigitRun(text, j + 1) ELSE 0

\* re.findall(prefix + '([0-9]+)', text), from position i on: the digits
\* after every occurrence of the prefix that digits follow, left to right.
RECURSIVE FindAll(_, _, _)
FindAll(prefix, text, i) ==
    IF i > Len(text) THEN <<>>
    ELSE LET j == i + Len(prefix)
             n == DigitRun(text, j)
         IN IF j - 1 <= Len(text) /\ SubSeq(text, i, j - 1) = prefix /\ n > 0
            THEN <<SubSeq(text, j, j + n - 1)>> \o FindAll(prefix, text, j + n)
            ELSE FindAll(prefix, text, i + 1)

\* The value None of a text (a pull request without a description).
NoneText == <<"None">>

\* get_pr_and_issue_numbers under text2list_precheck: nothing for None, else
\* the numbers after '#', 'pull/' and 'issues/', made a set; the order of the
\* list it returns is the order in which Python iterates over that set.
get_pr_and_issue_numbers(text) ==
    IF text = NoneText THEN {}
    ELSE LET nums == FindAll(<<"#">>, text, 1)
                     \o FindAll(<<"p", "u", "l", "l", "/">>, text, 1)
                     \o FindAll(<<"i", "s", "s", "u", "e", "s", "/">>, text, 1)
         IN {nums[k] : k \in 1..Len(nums)}

MaxComments == 2

\* What the server lists for the comments; a comment is given by its body:
\* '', '#1' or 'pull/2 #1'.
CommentLists ==
    LET CommentTexts ==
            {<<>>, <<"#", "1">>, <<"p", "u", "l", "l", "/", "2", " ", "#", "1">>}
    IN UNION {[1..n -> CommentTexts] : n \in 0..MaxComments}

\* os.stat(save_path).st_size of a file written by write_to_file: json.dumps
\* of an empty list or dict has 2 characters, of any other value more.
st_size(val) == 2 + Len(val.v)

\* A mutant of CacheHit: renew is not looked at.
CacheHit_ignores_renew(h, file, renew) ==
    /\ file.state # "absent"
    /\ h = "get_pr_commit" => st_size(file.val) > 2
    /\ file.state = "value"

\* The helper returns from its cache: the file exists, renew is false, for
\* get_pr_commit the file has more than 2 characters, and get_file does not
\* raise.
CacheHit(h, file, renew) ==
    /\ file.state # "absent"
    /\ ~renew
    /\ h = "get_pr_commit" => st_size(file.val) > 2
    /\ file.state = "value"

\* The cache file when the process starts: none, one that json.load cannot
\* read, or one that holds a value.
InitialFiles(h) ==
    LET CachedValues ==
            CASE h \in {"get_pull_commit", "get_pr_commit", "get_repo_PRlist"} ->
                   {JList(b) : b \in Bodies(1)}
              [] h = "fetch_commit" -> {JList(<<>>), JList(<<<<"name">>>>)}
              [] h = "get_another_pull" -> {JList(<<>>), JList(<<<<"1">>>>)}
              [] OTHER -> {EmptyDict, JList(Object(<<>>))}
    IN {NoFile, [state |-> "unreadable", val |-> EmptyDict]} \cup
       {[state |-> "value", val |-> v] : v \in CachedValues}

\* fetch_commit after api.request returned c: KeyError if c has no 'files';
\* for a file with a 'patch' line 988 evaluates fetch_raw_diff.parse_diff,
\* where fetch_raw_diff is the function that line 12 has imported over the
\* module, and raises AttributeError; else file_list stays empty.
fetch_commit(c) ==
    IF ~Has(c, "files")
    THEN [kind |-> "KeyError", val |-> EmptyDict]
    ELSE IF \E k \in 1..Len(Files(c)) : HasKey(Files(c)[k], "patch")
    THEN [kind |-> "AttributeError", val |-> EmptyDict]
    ELSE [kind |-> "return", val |-> JList(<<>>)]

\* get_another_pull after api.request returned comments: the numbers the
\* bodies of the comments and of the pull request cite, in a list;
\* list(set(candidates)) has the members of the set, once each, in any order.
get_another_pull(comments, body) ==
    LET candidates ==
            UNION {get_pr_and_issue_numbers(comments.v[k]) : k \in 1..Len(comments.v)}
                \cup get_pr_and_issue_numbers(body)
        Orders ==
            {f \in [1..Cardinality(candidates) -> candidates] :
                \A m, n \in 1..Cardinality(candidates) : m # n => f[m] # f[n]}
    IN {[kind |-> "return", val |-> JList(result)] : result \in Orders}

\* What the helper makes of the result of api.request, after its sleep: the
\* outcomes it can have. The other helpers keep the result.
HelperResult(h, res, arg) ==
    CASE h = "fetch_commit" -> {fetch_commit(res)}
      [] h = "get_another_pull" -> get_another_pull(res, arg)
      [] OTHER -> {[kind |-> "return", val |-> res]}

\* What the server answers a helper's request with, status 200: a list for
\* get_pull_commit, get_pr_commit and get_repo_PRlist (pulls, issues, forks,
\* branches).
HelperBodies(h) ==
    CASE h \in {"get_pull_commit", "get_pr_commit", "get_repo_PRlist"} -> Bodies(1)
      [] h = "fetch_commit" -> Objects
      [] h = "get_another_pull" -> CommentLists
      [] OTHER -> {Object(<<>>)}

InitCache ==
    /\ tokens = [i \in 1..NumTokens |-> NewToken(<<"t", i>>)]
    /\ now = Clock(StartTime)
    /\ pc = "idle"
    /\ url = Url_core
    /\ paginate = FALSE
    /\ idx = 1
    /\ page = 0
    /\ paginated_res = <<>>
    /\ timeout_counter = 0
    /\ outcome = NoOutcome
    /\ fetched = <<>>
    /\ last = NoLast
    /\ sleeps = <<>>
    /\ stats = NoStats
    /\ pd = NoParse
    /\ pf = NoFiles
    /\ wrapper = NoWrapper
    /\ nc = NoNonCode
    /\ LET \* get_PR and get_pull_commit as the module defines them last
           \* (lines 1246 and 1260)
           Helpers ==
               {"get_PR", "get_pull_commit", "get_pr_commit", "fetch_commit",
                "get_repo_PRlist", "get_another_pull"}
           \* pull["body"]: None, '#1' or 'issues/30'
           PullBodies ==
               {NoneText, <<"#", "1">>,
                <<"i", "s", "s", "u", "e", "s", "/", "3", "0">>}
           \* the type given to get_repo_PRlist
           ListTypes == {<<"pull">>, <<"issue">>, <<"fork">>, <<"branch">>}
       IN \E h \in Helpers : \E f \in InitialFiles(h) :
            \E arg \in (CASE h = "get_another_pull" -> PullBodies
                          [] h = "get_repo_PRlist" -> ListTypes
                          [] OTHER -> {<<>>}) :
                helper = [NoHelper EXCEPT !.name = h, !.pc = "idle", !.file = f,
                                          !.arg = arg]

\* A call of the helper, up to its return from the cache or to its call of
\* api.request.
HelperCall ==
    /\ helper.pc \in {"idle", "returned", "raised"}
    /\ helper.calls < MaxHelperCalls
    /\ now < Clock(StartTime + MaxElapsed)
    /\ \E renew \in BOOLEAN :
        LET hit == CacheHit(helper.name, helper.file, renew)
            \* the helpers that begin with api = GitHubAPI()
            ConstructsFirst ==
                helper.name \in {"fetch_commit", "get_repo_PRlist", "get_another_pull"}
            \* get_pr_commit writes it after the look at the cache
            ConstructsOnMiss == helper.name = "get_pr_commit"
            again == ConstructsFirst \/ (~hit /\ ConstructsOnMiss)
        IN /\ tokens' = IF again
                        THEN InitPool(tokens,
                                 [i \in 1..Len(tokens) |-> tokens[i].token]).tokens
                        ELSE tokens
           /\ helper' = [helper EXCEPT
                            !.renew = renew,
                            !.calls = helper.calls + 1,
                            !.requests = 0,
                            !.before = [result |-> helper.result, file |-> helper.file],
                            !.pc = IF hit THEN "returned" ELSE "request",
                            !.result = IF hit
                                       THEN [kind |-> "return", val |-> helper.file.val]
                                       ELSE NoOutcome]
    /\ pc' = "idle"
    /\ outcome' = NoOutcome
    /\ UNCHANGED <<now, url, paginate, idx, page, paginated_res, timeout_counter,
                   fetched, last, sleeps, stats, pd, pf, wrapper, nc>>

\* The helper calls api.request: with paginate=True and so from page 1, or
\* with paginate left False and no page among the parameters.
StartCached ==
    /\ helper.pc = "request"
    /\ pc = "idle"
    /\ BeginCall
    /\ url' = Url_core
    /\ paginate' = HelperPaginate(helper.name, helper.arg)
    /\ page' = IF paginate' THEN 1 ELSE 0
    /\ helper' = [helper EXCEPT !.pc = "wait", !.requests = helper.requests + 1]

\* The server answers 200 with the resource (a list of one page, or an
\* object), 401, 404 or 503.
SendCached ==
    \E s \in {200, 401, 404, 503},
       h \in {h \in HeaderChoices(now) : h.remaining \in {None, 0}} :
      \E b \in (IF s # 200 THEN {<<>>} ELSE HelperBodies(helper.name)) :
        SendStep(Response(s, h, b, FALSE), 1, 1)

\* get_another_pull writes api.request(comments_href, True) and
\* get_repo_PRlist, for a type other than 'pull' and 'issue',
\* api.request('repos/%s/%ss' % (repo, type), True): both pass True for
\* method and leave paginate False. What requests.request does with a method
\* that is no string is the library's: the releases of requests call
\* method.upper() and raise AttributeError before anything is sent, which
\* passes through token.request and the dispatcher; an HTTP layer that does
\* not look at the method sends the request (SendCached).
MethodRefused ==
    /\ \/ helper.name = "get_another_pull"
       \/ /\ helper.name = "get_repo_PRlist"
          /\ ~HelperPaginate(helper.name, helper.arg)
    /\ pc = "for"
    /\ idx <= Len(tokens)
    /\ ready(tokens[idx], url, now)
    /\ Finish("AttributeError", EmptyDict)
    /\ UNCHANGED <<tokens, now, url, paginate, page, paginated_res,
                   timeout_counter, fetched, last, sleeps, stats, pd, pf, wrapper,
                   nc, helper>>

\* api.request has ended: its exception passes through the helper, or the
\* helper sleeps and builds its result; if that does not raise it writes
\* the result to the cache file and returns it.
HelperFinish ==
    /\ helper.pc = "wait"
    /\ pc = "done"
    /\ \E res \in (IF outcome.kind = "return"
                   THEN HelperResult(helper.name, outcome.val, helper.arg)
                   ELSE {outcome}) :
        helper' = [helper EXCEPT
                      !.pc = IF res.kind = "return" THEN "returned" ELSE "raised",
                      !.result = res,
                      !.file = IF res.kind = "return"
                               THEN [state |-> "value", val |-> res.val]
                               ELSE helper.file]
    /\ now' = now + (IF outcome.kind = "return" THEN HelperSleep(helper.name) ELSE 0)
    /\ UNCHANGED <<tokens, pc, url, paginate, idx, page, paginated_res,
                   timeout_counter, outcome, fetched, last, sleeps, stats,
                   pd, pf, wrapper, nc>>

NextCache ==
    \/ HelperCall
    \/ StartCached
    \/ SkipNotReady
    \/ SendCached
    \/ EndOfPass
    \/ MethodRefused
    \/ HelperFinish

SpecCache == InitCache /\ [][NextCache]_vars

\* A call of the helper has ended.
HelperEnded == helper.pc \in {"returned", "raised"}

\* The cache file exists and is readable.
Cached(file) == file.state = "value"

\* The helper has returned v.
Returned(v) == [kind |-> "return", val |-> v]

\* C32 as claimed: if the cache file exists, is readable and renew is false,
\* the helper returns the cached value and makes no request; otherwise it
\* makes exactly one request and what it returns is in the cache file when it
\* returns; a non-renew call right after a call that returned returns the
\* same value without a request.
C32_Original ==
    HelperEnded =>
        LET f == helper.before.file
        IN /\ (Cached(f) /\ ~helper.renew) =>
                /\ helper.result = Returned(f.val)
                /\ helper.requests = 0
           /\ ~(Cached(f) /\ ~helper.renew) =>
                /\ helper.requests = 1
                /\ helper.pc = "returned" =>
                        helper.file = [state |-> "value", val |-> helper.result.val]
           /\ (helper.calls = 2 /\ ~helper.renew
                    /\ helper.before.result.kind = "return") =>
                /\ helper.result = helper.before.result
                /\ helper.requests = 0

\* The cached value is served: the file exists, is readable, renew is false
\* and, for get_pr_commit, the value is not an empty list or object.
Served(h, f, renew) ==
    /\ Cached(f)
    /\ ~renew
    /\ ~(h = "get_pr_commit" /\ f.val.v = <<>>)

\* C32: the helpers are read-through, except that get_pr_commit takes a
\* cached empty list or object for no cache at all. If the cached value is
\* served the helper returns it, makes no request and leaves the file alone;
\* otherwise it makes exactly one request, and if it returns, what it
\* returns is in the cache file; if it raises, the file is as it was. A
\* non-renew call right after a call that returned returns the same value
\* without a request, unless the helper is get_pr_commit and the value is
\* empty.
C32_ReadThrough ==
    HelperEnded =>
        LET f == helper.before.file
        IN /\ Served(helper.name, f, helper.renew) =>
                /\ helper.result = Returned(f.val)
                /\ helper.requests = 0
                /\ helper.file = f
           /\ ~Served(helper.name, f, helper.renew) =>
                /\ helper.requests = 1
                /\ helper.pc = "returned" =>
                        helper.file = [state |-> "value", val |-> helper.result.val]
                /\ helper.pc = "raised" => helper.file = f
           /\ (/\ helper.calls = 2 /\ ~helper.renew
               /\ helper.before.result.kind = "return"
               /\ ~(helper.name = "get_pr_commit"
                        /\ helper.before.result.val.v = <<>>)) =>
                /\ helper.result = helper.before.result
                /\ helper.requests = 0

\* C32 witness: get_pr_commit fetched a list that is not empty and wrote it;
\* the non-renew call that followed returned the same list from the cache.
C32_Witness ==
    /\ helper.name = "get_pr_commit" /\ helper.pc = "returned"
    /\ helper.calls = 2 /\ ~helper.renew /\ helper.requests = 0
    /\ helper.before.file.state = "value"
    /\ helper.before.result = Returned(helper.before.file.val)
    /\ helper.result = helper.before.result
    /\ helper.result.val.v # <<>>
    /\ last.kind = "response" /\ last.status = 200 /\ stats.sends > 0

\* ------------------------------------------------------- allNonCodeFiles

MaxListed == 2

\* name.endswith(suffix)
EndsWith(s, suffix) ==
    /\ Len(suffix) <= Len(s)
    /\ SubSeq(s, Len(s) - Len(suffix) + 1, Len(s)) = suffix

\* The lines of data/NonCodeFile.txt: the extensions of files that hold no code.
nonCodeFileExtensionList == <<<<".", "m", "d">>, <<".", "t", "x", "t">>>>

\* The names of the files of a pull request: a.py, r.md, n.txt.
FileNames ==
    {<<"a", ".", "p", "y">>, <<"r", ".", "m", "d">>, <<"n", ".", "t", "x", "t">>}

\* An entry of the list of files the server gives for a pull request: its
\* filename, the keys it has and the number under 'changes'.
Listed(name, keys, changes) == [filename |-> name, has |-> keys, changes |-> changes]

\* What the server lists for the files of the pull request. The entries:
\* a.py, r.md and n.txt with a patch; a.py without a patch (a binary file);
\* a.py with more than 5000 changes; r.md without 'changes'; an entry
\* without 'filename'.
Listings ==
    LET ListedFiles ==
            {Listed(n, {"filename", "patch", "changes"}, 1) : n \in FileNames} \cup
            {Listed(<<"a", ".", "p", "y">>, {"filename", "changes"}, 1),
             Listed(<<"a", ".", "p", "y">>, {"filename", "patch", "changes"}, 5001),
             Listed(<<"r", ".", "m", "d">>, {"filename", "patch"}, 0),
             Listed(<<>>, {"patch", "changes"}, 1)}
    IN UNION {[1..n -> ListedFiles] : n \in 0..MaxListed}

\* The for loop of fetch_file_list over li: parse_diff(f['filename'],
\* f['patch']) for the entries it takes, each record given by its 'name'.
\* Parsed is f.get('changes', 0) <= 5000 and ('filename' in f) and
\* ('patch' in f).
RECURSIVE ParsedNames(_)
ParsedNames(li) ==
    IF li = <<>> THEN <<>>
    ELSE LET f == Head(li)
             Parsed ==
                /\ (IF "changes" \in f.has THEN f.changes ELSE 0) <= 5000
                /\ "filename" \in f.has
                /\ "patch" \in f.has
         IN (IF Parsed THEN <<f.filename>> ELSE <<>>) \o ParsedNames(Tail(li))

\* The number of extensions of the list that the name ends with.
RECURSIVE Matches(_, _)
Matches(name, k) ==
    IF k > Len(nonCodeFileExtensionList) THEN 0
    ELSE (IF EndsWith(name, nonCodeFileExtensionList[k]) THEN 1 ELSE 0)
            + Matches(name, k + 1)

\* allNonCodeFiles(pull) is called; raw_diff.json is absent, unreadable or
\* holds a list.
InitNonCode ==
    /\ tokens = [i \in 1..NumTokens |-> NewToken(<<"t", i>>)]
    /\ \E f \in StartFractions : now = Clock(StartTime) + f
    /\ pc = "idle"
    /\ url = Url_core
    /\ paginate = FALSE
    /\ idx = 1
    /\ page = 0
    /\ paginated_res = <<>>
    /\ timeout_counter = 0
    /\ outcome = NoOutcome
    /\ fetched = <<>>
    /\ last = NoLast
    /\ sleeps = <<>>
    /\ stats = NoStats
    /\ pd = NoParse
    /\ pf = NoFiles
    /\ wrapper = NoWrapper
    /\ nc = [NoNonCode EXCEPT !.pc = "try"]
    /\ \E f \in {NoFile, [state |-> "unreadable", val |-> EmptyDict]}
                \cup {[state |-> "value", val |-> JList(l)] :
                        l \in UNION {[1..n -> FileNames] : n \in 0..2}} :
        helper = [NoHelper EXCEPT !.name = "fetch_file_list", !.pc = "idle", !.file = f]

\* fetch_file_list has returned file_list to allNonCodeFiles:
\* total_num_files = len(file_list); noncode_file_count = 0
Fetched(list) ==
    [nc EXCEPT !.pc = "for",
               !.fetch = [raised |-> FALSE, list |-> list],
               !.file_list = list,
               !.total_num_files = Len(list),
               !.noncode_file_count = 0]

\* fetch_file_list has raised: except: return True
NotFetched ==
    [nc EXCEPT !.pc = "done",
               !.fetch = [raised |-> TRUE, list |-> <<>>],
               !.result = "True"]

\* try: file_list = fetch_file_list(pull), up to its return from the cache
\* or to its first call of api.request, for 'repos/.../files?page=3'.
NonCodeCall ==
    /\ nc.pc = "try"
    /\ helper.pc = "idle"
    /\ pc = "idle"
    /\ IF CacheHit("fetch_file_list", helper.file, FALSE)
       THEN /\ nc' = Fetched(helper.file.val.v)
            /\ helper' = [helper EXCEPT
                             !.pc = "returned",
                             !.result = [kind |-> "return", val |-> helper.file.val]]
            /\ UNCHANGED <<pc, url, paginate, idx, page, paginated_res,
                           timeout_counter, outcome, fetched, last, sleeps, stats>>
       ELSE /\ BeginCall
            /\ url' = Url_core
            /\ paginate' = FALSE
            /\ page' = 0
            /\ helper' = [helper EXCEPT !.pc = "page3", !.requests = 1]
    /\ UNCHANGED <<tokens, now, pd, pf, wrapper>>

\* The server answers 200 with a list (for page 3: no file or one), 401, 404
\* or 503.
SendNonCode ==
    \E s \in {200, 401, 404, 503},
       h \in {h \in HeaderChoices(now) : h.remaining \in {None, 0}} :
      \E b \in (IF s # 200 THEN {<<>>}
                ELSE IF helper.pc = "page3"
                THEN {<<>>, <<Listed(<<"a", ".", "p", "y">>,
                                     {"filename", "patch", "changes"}, 1)>>}
                ELSE Listings) :
        SendStep(Response(s, h, b, FALSE), 1, 1)

\* The request for page 3 has ended with an exception, or with a list that
\* is not empty, for which fetch_file_list raises Exception('too big'):
\* allNonCodeFiles returns True.
NonCodeTooBig ==
    /\ helper.pc = "page3"
    /\ pc = "done"
    /\ outcome.kind # "return" \/ Len(outcome.val.v) > 0
    /\ nc' = NotFetched
    /\ helper' = [helper EXCEPT
                     !.pc = "raised",
                     !.result = IF outcome.kind = "return"
                                THEN [kind |-> "Exception", val |-> EmptyDict]
                                ELSE outcome]
    /\ UNCHANGED <<tokens, now, pc, url, paginate, idx, page, paginated_res,
                   timeout_counter, outcome, fetched, last, sleeps, stats,
                   pd, pf, wrapper>>

\* The request for page 3 has returned an empty list or {}: fetch_file_list
\* calls api.request for the list of the files, paginate=True.
NonCodeList ==
    /\ helper.pc = "page3"
    /\ pc = "done"
    /\ outcome.kind = "return" /\ Len(outcome.val.v) = 0
    /\ BeginCall
    /\ url' = Url_core
    /\ paginate' = TRUE
    /\ helper' = [helper EXCEPT !.pc = "list", !.requests = 2]

\* The request for the list has ended: its exception makes allNonCodeFiles
\* return True; else fetch_file_list sleeps 0.8 s, parses the files it
\* takes, writes file_list to raw_diff.json and returns it.
NonCodeFetch ==
    /\ helper.pc = "list"
    /\ pc = "done"
    /\ IF outcome.kind = "return"
       THEN LET file_list == ParsedNames(outcome.val.v)
            IN /\ now' = now + 8
               /\ helper' = [helper EXCEPT
                                !.pc = "returned",
                                !.result = [kind |-> "return", val |-> JList(file_list)],
                                !.file = [state |-> "value", val |-> JList(file_list)]]
               /\ nc' = Fetched(file_list)
       ELSE /\ now' = now
            /\ helper' = [helper EXCEPT !.pc = "raised", !.result = outcome]
            /\ nc' = NotFetched
    /\ UNCHANGED <<tokens, pc, url, paginate, idx, page, paginated_res,
                   timeout_counter, outcome, fetched, last, sleeps, stats,
                   pd, pf, wrapper>>

\* The body of "for file in file_list" for the first file: the inner loop
\* over the extensions, then the if whose two branches both return.
NonCodeFile ==
    /\ nc.pc = "for"
    /\ nc.file_list # <<>>
    /\ LET count == nc.noncode_file_count + Matches(nc.file_list[1], 1)
       IN nc' = [nc EXCEPT !.pc = "done",
                           !.noncode_file_count = count,
                           !.result = IF count = nc.total_num_files
                                      THEN "True" ELSE "False"]
    /\ UNCHANGED <<tokens, now, pc, url, paginate, idx, page, paginated_res,
                   timeout_counter, outcome, fetched, last, sleeps, stats,
                   pd, pf, wrapper, helper>>

\* The for loop over an empty list: the function ends without a return.
NonCodeNoFile ==
    /\ nc.pc = "for"
    /\ nc.file_list = <<>>
    /\ nc' = [nc EXCEPT !.pc = "done", !.result = "None"]
    /\ UNCHANGED <<tokens, now, pc, url, paginate, idx, page, paginated_res,
                   timeout_counter, outcome, fetched, last, sleeps, stats,
                   pd, pf, wrapper, helper>>

NextNonCode ==
    \/ NonCodeCall
    \/ SkipNotReady
    \/ SendNonCode
    \/ EndOfPass
    \/ NonCodeTooBig
    \/ NonCodeList
    \/ NonCodeFetch
    \/ NonCodeFile
    \/ NonCodeNoFile

SpecNonCode == InitNonCode /\ [][NextNonCode]_vars

\* The name ends in one of the non-code extensions.
IsNonCode(name) ==
    \E k \in 1..Len(nonCodeFileExtensionList) :
        EndsWith(name, nonCodeFileExtensionList[k])

\* C38 as claimed: allNonCodeFiles returns True exactly when the file list
\* could not be fetched or every file of the list has a non-code name, and
\* False when one file at least is a code file, wherever it stands.
C38_TrueIffAllNonCode ==
    nc.pc = "done" =>
        LET l == nc.fetch.list
            allNon == \A k \in 1..Len(l) : IsNonCode(l[k])
        IN /\ nc.result = "True" <=> (nc.fetch.raised \/ allNon)
           /\ (~nc.fetch.raised /\ ~allNon) => nc.result = "False"

====
